---- MODULE Spec2Model ----
(***************************************************************************)
(* Rocket League AI coach: the match store (src/src/database.py), the      *)
(* analytics engine (src/src/analytics.py), the replay client              *)
(* (src/src/data_collection.py), the dashboard (src/app.py) and the main   *)
(* script (src/main.py), modelled as state machines.                       *)
(*                                                                         *)
(* Spec           the SQLite store driven by add_player, add_match_history,*)
(*                get_player_stats and player_exists, called by several    *)
(*                threads at once.                                         *)
(* SpecAnalytics  PlayerAnalytics applied to a dataset read back from the  *)
(*                store.                                                   *)
(* SpecWindows    get_recent_form and compare_performance on datasets with *)
(*                a pair of equal dates.                                   *)
(* SpecPlaylists  get_stats_by_playlist on datasets with playlists.        *)
(* SpecStrengths  get_strengths_and_weaknesses on datasets whose averages  *)
(*                reach every threshold.                                   *)
(* SpecTrend      get_performance_trend on datasets longer than the rolling*)
(*                window.                                                  *)
(* SpecExtract    get_player_stats_from_replay on replay details.          *)
(* SpecSearch     search_replays against a service that answers or fails.  *)
(* SpecHistory    get_player_match_history against a service that answers  *)
(*                or fails per request.                                    *)
(* SpecHistorySteps  the loop of get_player_match_history, one request at  *)
(*                a step, against a service that may leave a request       *)
(*                unanswered.                                              *)
(* SpecDashboard  the analysis runs of the dashboard's sessions, side by    *)
(*                side on one database, with storage failures.             *)
(* SpecMain       analyze_player as the main script calls it, for one      *)
(*                player after the other, with answers to its prompt and   *)
(*                with storage failures.                                   *)
(* SpecCallers    the sessions of the dashboard and the main script on one *)
(*                database.                                                *)
(* SpecBatch      add_match_history of a batch that mixes stored and new   *)
(*                replays.                                                 *)
(*                                                                         *)
(* The variable api is the ballchasing service as the client finds it: what*)
(* GET /replays does, and what GET /replays/{id} does for each replay      *)
(* listed.  A str is the sequence of its characters; a dict is a function  *)
(* from its keys.                                                          *)
(*                                                                         *)
(* Every storage method opens its own connection, and add_match_history    *)
(* calls add_player, which commits on a connection of its own, before its  *)
(* first INSERT.  A step of the model is what one thread does between two  *)
(* points at which another connection may read or write the database: a    *)
(* transaction up to its commit, or the requests of a fetch, which touch   *)
(* no table.  add_match_history is two steps, and a run of a caller is one *)
(* step for each storage call it makes.  The INSERTs, the UPDATE and the   *)
(* commit of add_match_history are one transaction: SQLite shows none of   *)
(* its rows to another connection before the commit, and lets no other     *)
(* connection write while it is open.                                      *)
(*                                                                         *)
(* A storage failure is an sqlite3 error other than IntegrityError raised  *)
(* by add_player, by an INSERT, by the UPDATE or by the commit of          *)
(* add_match_history; what is on disk after it is what the connections     *)
(* have committed.                                                         *)
(* The exception leaves the method before conn.close(), so the connection  *)
(* may keep its lock on the file until the collector frees it (locked);    *)
(* a storage call that finds the lock raises 'database is locked' after    *)
(* the busy timeout, and the run it belongs to ends in the except clause   *)
(* of its caller.                                                          *)
(*                                                                         *)
(* The dashboard script runs from top to bottom on every interaction of a  *)
(* session.  A run of the Analyze button that has read the player's games  *)
(* records the name in st.session_state (analyzed_player) and goes on to   *)
(* the display block, which reads the games again outside the try; every   *)
(* later run of that session, with or without the button, reaches the      *)
(* display block too.  A failure of that second read is caught by nothing. *)
(*                                                                         *)
(* The replay client passes no timeout to requests.get: a request comes    *)
(* back with an answer, comes back with an exception, or does not come     *)
(* back.                                                                   *)
(*                                                                         *)
(* The players.last_updated column is a wall-clock timestamp that no       *)
(* operation reads back; it is left out of the rows.  Of the columns of    *)
(* match_history the rows keep replay_id, date, playlist, won, goals,      *)
(* assists, saves and shooting_percentage; the remaining stat columns      *)
(* (shots, score, boost, movement, positioning) are read, bound, stored and*)
(* averaged the way goals is, and the result keys computed from them are   *)
(* left out of the results.                                                *)
(***************************************************************************)

EXTENDS Integers, Sequences, FiniteSets, Bags, TLC

VARIABLES
    players,        \* table players, in rowid order
    match_history,  \* table match_history, in rowid order
    sqlite_sequence,\* table sqlite_sequence: the AUTOINCREMENT counters
    call,           \* the last call made on the store or the replay client
                    \* and what it returned; for the callers, the run that
                    \* the last step has ended and what it has shown
    api,            \* what the replay-hosting service answers
    df,             \* the DataFrame held by PlayerAnalytics (self.df)
    result,         \* the last PlayerAnalytics call and what it returned
    threads,        \* the threads that are inside add_match_history or
                    \* inside a run of a caller: for each, where it stands
                    \* and its local variables
    locked,         \* a connection whose call has raised is not closed yet
                    \* and holds its lock on the database file
    analyzed_player \* the names that are st.session_state.analyzed_player
                    \* in a session of the dashboard

vars ==
    <<players, match_history, sqlite_sequence, call, api, df, result, threads,
      locked, analyzed_player>>

----------------------------------------------------------------------------
(* Bounds of the model *)

MaxReplay == 1      \* replay ids 1..MaxReplay
MaxDate == 2        \* date strings, by their rank in text order
MaxPlaylist == 2    \* playlist names 1..MaxPlaylist
MaxStat == 1        \* goals, assists, saves of one game 0..MaxStat
MaxBatch == 1       \* longest match_data list passed to add_match_history
MaxPlayerInserts == 2  \* INSERTs into players the model lets happen
MaxMatchInserts == 2   \* INSERTs into match_history the model lets happen
MaxGames == 2       \* longest dataset of SpecAnalytics and SpecWindows
MaxN == 2           \* largest num_games / first_n / last_n argument
MaxRoster == 1      \* most players on one team of a replay payload
MaxSeasonGames == 5 \* longest dataset of SpecStrengths
MaxPerGame == 2     \* largest per-game average of a stat in SpecStrengths
MaxTrendGames == 6  \* longest dataset of SpecTrend
MaxSearch == 2      \* longest "list" of a search response
MaxMixed == 3       \* longest batch, and most replay ids, of SpecBatch
MaxThreads == 2     \* threads at work on the database file at a time
ApiMaxCount == 200  \* the cap on "count" in search_replays
DefaultCount == 30  \* the default of count and num_games
SleepMs == 500      \* time.sleep(0.5) after a replay is processed
SliderDefault == 20 \* the dashboard's "Number of games to analyze"
MainGames == 10     \* num_games of the main script

----------------------------------------------------------------------------
(* Values *)

\* SQL NULL / Python None in the replay_id and playlist columns: a value
\* that is no replay id, no playlist and not the number 0
NULL == -1

Names == {"Squishy", "justin"}

ReplayIds == {NULL} \cup (1 .. MaxReplay)

Dates == 1 .. MaxDate

Playlists == {NULL} \cup (1 .. MaxPlaylist)

Stats == 0 .. MaxStat

\* shooting_percentage values on both sides of the 25 and 40 thresholds
Percentages == {0, 25, 40, 100}

\* The match dictionaries produced by get_player_stats_from_replay
Records ==
    [replay_id : ReplayIds, date : Dates, playlist : Playlists,
     won : BOOLEAN, goals : Stats, assists : Stats, saves : Stats,
     shooting_percentage : Percentages]

\* A record with every stat at the default of get_player_stats_from_replay
DefaultStats(r) ==
    /\ r.playlist = NULL
    /\ r.goals = 0 /\ r.assists = 0 /\ r.saves = 0
    /\ r.shooting_percentage = 0

\* The match dictionaries the store is driven with.  The store binds
\* playlist, won and the stats like date and never reads them, so the
\* batches of Spec vary the record through replay_id and date alone.
StoreRecords == {r \in Records : DefaultStats(r) /\ r.won}

RECURSIVE SeqsUpTo(_, _)
SeqsUpTo(S, n) ==
    IF n = 0 THEN {<<>>}
    ELSE LET shorter == SeqsUpTo(S, n - 1)
         IN  shorter \cup {Append(s, x) : s \in {t \in shorter : Len(t) = n - 1}, x \in S}

Batches == SeqsUpTo(StoreRecords, MaxBatch)

----------------------------------------------------------------------------
(* The store: src/src/database.py *)

\* A Python bool bound to the BOOLEAN (NUMERIC affinity) column is stored,
\* and read back, as the integer 1 or 0.
SqlBool(b) == IF b THEN 1 ELSE 0

\* The row an INSERT INTO match_history writes for one match dictionary
MatchRow(match_id, player_id, match) ==
    [match_id  |-> match_id,
     player_id |-> player_id,
     replay_id |-> match.replay_id,
     date      |-> match.date,
     playlist  |-> match.playlist,
     won       |-> SqlBool(match.won),
     goals     |-> match.goals,
     assists   |-> match.assists,
     saves     |-> match.saves,
     shooting_percentage |-> match.shooting_percentage]

\* replay_id TEXT UNIQUE: a table-wide unique index; NULLs never conflict
ReplayConflict(rows, replay_id) ==
    /\ replay_id # NULL
    /\ \E i \in DOMAIN rows : rows[i].replay_id = replay_id

\* Mutant of InsertOrIgnore: INSERT OR REPLACE, which deletes the row that
\* holds the replay_id and inserts the new one
InsertOrReplace(tab, player_id, match) ==
    [rows |-> Append(SelectSeq(tab.rows,
                        LAMBDA r : ~(/\ match.replay_id # NULL
                                     /\ r.replay_id = match.replay_id)),
                     MatchRow(tab.seq + 1, player_id, match)),
     seq  |-> tab.seq + 1]

\* INSERT OR IGNORE INTO match_history (...) VALUES (...) on the table
\* tab = [rows, seq].  match_id INTEGER PRIMARY KEY AUTOINCREMENT: the
\* statement takes the next value of the counter, and SQLite records the
\* value as used also when the row is then ignored.
InsertOrIgnore(tab, player_id, match) ==
    [rows |-> IF ReplayConflict(tab.rows, match.replay_id)
              THEN tab.rows
              ELSE Append(tab.rows, MatchRow(tab.seq + 1, player_id, match)),
     seq  |-> tab.seq + 1]

\* SELECT player_id FROM players WHERE player_name = ?
PlayerIdOf(ps, player_name) ==
    (CHOOSE i \in DOMAIN ps : ps[i].player_name = player_name)

\* SELECT COUNT(*) FROM players WHERE player_name = ?  ... > 0
PlayerExists(ps, player_name) ==
    \E i \in DOMAIN ps : ps[i].player_name = player_name

\* add_player: INSERT OR IGNORE INTO players (player_name, last_updated) on
\* the table tab = [rows, seq]; player_name TEXT UNIQUE, player_id INTEGER
\* PRIMARY KEY AUTOINCREMENT, total_games INTEGER DEFAULT 0
AddPlayerRows(tab, player_name) ==
    [rows |-> IF PlayerExists(tab.rows, player_name)
              THEN tab.rows
              ELSE Append(tab.rows, [player_id   |-> tab.seq + 1,
                                     player_name |-> player_name,
                                     total_games |-> 0]),
     seq  |-> tab.seq + 1]

\* Mutant of InsertLoop: the loop ends at the first record whose replay_id
\* is already stored
RECURSIVE InsertLoop_StopAtDuplicate(_, _, _, _, _)
InsertLoop_StopAtDuplicate(tab, player_id, match_data, i, games_added) ==
    IF i > Len(match_data)
          \/ ReplayConflict(tab.rows, match_data[i].replay_id)
    THEN [tab |-> tab, games_added |-> games_added]
    ELSE InsertLoop_StopAtDuplicate(
             InsertOrIgnore(tab, player_id, match_data[i]),
             player_id, match_data, i + 1, games_added + 1)

\* The for loop of add_match_history over match_data[i..]: the table after
\* the loop and the games_added counter
RECURSIVE InsertLoop(_, _, _, _, _)
InsertLoop(tab, player_id, match_data, i, games_added) ==
    IF i > Len(match_data)
    THEN [tab |-> tab, games_added |-> games_added]
    ELSE InsertLoop(InsertOrIgnore(tab, player_id, match_data[i]),
                    player_id, match_data, i + 1, games_added + 1)

\* Mutant of CountGames: the COUNT(*) without its WHERE clause
CountGames_NoWhere(rows, player_id) == Len(rows)

\* SELECT COUNT(*) FROM match_history WHERE player_id = ?
CountGames(rows, player_id) ==
    Cardinality({i \in DOMAIN rows : rows[i].player_id = player_id})

\* UPDATE players SET total_games = (SELECT COUNT(*) ...) WHERE player_id = ?
UpdateTotalGames(ps, rows, player_id) ==
    [i \in DOMAIN ps |->
        IF ps[i].player_id = player_id
        THEN [ps[i] EXCEPT !.total_games = CountGames(rows, player_id)]
        ELSE ps[i]]

\* The rows selected by get_player_stats: match_history JOIN players
\* ON player_id WHERE player_name = ?
QueryRows(ps, rows, player_name) ==
    {rows[i] : i \in {j \in DOMAIN rows :
        \E k \in DOMAIN ps : /\ ps[k].player_id = rows[j].player_id
                              /\ ps[k].player_name = player_name}}

\* Mutant of OrderedByDateDesc: ORDER BY m.date (ascending)
OrderedByDateAsc(s) ==
    \A i, j \in DOMAIN s : i < j => s[i].date <= s[j].date

\* ORDER BY m.date DESC
OrderedByDateDesc(s) ==
    \A i, j \in DOMAIN s : i < j => s[i].date >= s[j].date

\* The result sets a query may deliver for the selected rows S: every
\* arrangement that respects the ORDER BY (rows of equal date in any
\* order).  Built row by row: a row may come first if it may stand before
\* every other row.
RECURSIVE ResultSets(_)
ResultSets(S) ==
    IF S = {} THEN {<<>>}
    ELSE UNION {{<<r>> \o s : s \in ResultSets(S \ {r})} :
                   r \in {x \in S : \A y \in S : OrderedByDateDesc(<<x, y>>)}}

\* The transaction of add_match_history on the tables ptab and mtab: the
\* INSERTs of the loop, the UPDATE of the player record and the commit.
\* The first INSERT (the UPDATE, for an empty match_data) begins the
\* transaction and takes the write lock of the file, which the commit
\* releases; until then every other connection reads the tables as they
\* were and waits to write.
InsertAndCommit(ptab, mtab, player_id, match_data) ==
    LET loop == InsertLoop(mtab, player_id, match_data, 1, 0)
    IN  [players         |-> UpdateTotalGames(ptab.rows, loop.tab.rows,
                                              player_id),
         match_history   |-> loop.tab.rows,
         sqlite_sequence |-> [players       |-> ptab.seq,
                              match_history |-> loop.tab.seq],
         games_added     |-> loop.games_added]

\* add_match_history while no other connection writes: add_player, which
\* commits the player record on its own connection, and then the
\* transaction of the INSERTs
AddMatchHistory(ptab, mtab, player_name, match_data) ==
    LET ps        == AddPlayerRows(ptab, player_name)
        player_id == ps.rows[PlayerIdOf(ps.rows, player_name)].player_id
    IN  InsertAndCommit(ps, mtab, player_id, match_data)

NoCall == [op |-> "none"]

\* No thread is inside a call.  The threads at work are a bag of frames:
\* each has its own connections, and which thread is which makes no
\* difference to the database.
NoThreads == EmptyBag

\* The frames of the threads at work
Frames == BagToSet(threads)

\* One more thread may start a call
SomeThread == BagCardinality(threads) < MaxThreads

\* A thread enters a call with the frame f, goes on from the frame f to the
\* frame g, returns from the frame f
Enter(f) == threads (+) SetToBag({f})

Goto(f, g) == (threads (-) SetToBag({f})) (+) SetToBag({g})

Return(f) == threads (-) SetToBag({f})

NoResult == [op |-> "none"]

\* The answer of a request that failed (a requests.RequestException)
Failed == [ok |-> FALSE]

\* The replay-hosting service out of reach
Offline == [search |-> Failed, details |-> <<>>]

\* The two tables with their AUTOINCREMENT counters
PlayersTable == [rows |-> players, seq |-> sqlite_sequence.players]

MatchTable == [rows |-> match_history, seq |-> sqlite_sequence.match_history]

\* create_tables on a new database file
Init ==
    /\ players = <<>>
    /\ match_history = <<>>
    /\ sqlite_sequence = [players |-> 0, match_history |-> 0]
    /\ call = NoCall
    /\ api = Offline
    /\ df = <<>>
    /\ result = NoResult
    /\ threads = NoThreads
    /\ locked = FALSE
    /\ analyzed_player = {}

\* The INSERTs that the calls of add_match_history in progress, with the
\* frames F, will make
RECURSIVE InsertsToCome(_)
InsertsToCome(F) ==
    IF F = {} THEN 0
    ELSE LET f == CHOOSE g \in F : TRUE
         IN  (IF f.pc = "insert"
              THEN CopiesIn(f, threads) * Len(f.match_data) ELSE 0)
                 + InsertsToCome(F \ {f})

\* The model lets a call of add_match_history with match_data start while
\* the INSERTs made and to come stay within the bounds
Room(match_data) ==
    /\ sqlite_sequence.players < MaxPlayerInserts
    /\ sqlite_sequence.match_history + InsertsToCome(Frames)
          + Len(match_data) <= MaxMatchInserts

add_player(player_name) ==
    /\ SomeThread
    /\ sqlite_sequence.players < MaxPlayerInserts
    /\ LET ps == AddPlayerRows(PlayersTable, player_name)
       IN  /\ players' = ps.rows
           /\ sqlite_sequence' = [sqlite_sequence EXCEPT !.players = ps.seq]
           /\ call' = [op |-> "add_player", player_name |-> player_name,
                       ret |-> ps.rows[PlayerIdOf(ps.rows, player_name)].player_id]
    /\ UNCHANGED <<match_history, api, df, result, threads, locked, analyzed_player>>

\* add_match_history on one more thread, from its start to the return of
\* self.add_player: the player record is committed
add_match_history(player_name, match_data) ==
    /\ SomeThread
    /\ LET ps == AddPlayerRows(PlayersTable, player_name)
       IN  /\ players' = ps.rows
           /\ sqlite_sequence' = [sqlite_sequence EXCEPT !.players = ps.seq]
           /\ threads' = Enter(
                  [pc          |-> "insert",
                   player_name |-> player_name,
                   match_data  |-> match_data,
                   player_id   |->
                       ps.rows[PlayerIdOf(ps.rows, player_name)].player_id])
    /\ UNCHANGED <<match_history, call, api, df, result, locked, analyzed_player>>

\* The rest of add_match_history on the thread with the frame f: the
\* transaction of the INSERTs and the return
add_match_history_commit(f) ==
    /\ f.pc = "insert"
    /\ LET done == InsertAndCommit(PlayersTable, MatchTable,
                                   f.player_id, f.match_data)
       IN  /\ match_history' = done.match_history
           /\ players' = done.players
           /\ sqlite_sequence' = done.sqlite_sequence
           /\ call' = [op          |-> "add_match_history",
                       player_name |-> f.player_name,
                       match_data  |-> f.match_data,
                       games_added |-> done.games_added]
    /\ threads' = Return(f)
    /\ UNCHANGED <<api, df, result, locked, analyzed_player>>

get_player_stats(player_name) ==
    /\ SomeThread
    /\ \E s \in ResultSets(QueryRows(players, match_history, player_name)) :
          call' = [op |-> "get_player_stats", player_name |-> player_name,
                   ret |-> s]
    /\ UNCHANGED <<players, match_history, sqlite_sequence, api, df, result, threads, locked, analyzed_player>>

player_exists(player_name) ==
    /\ SomeThread
    /\ call' = [op |-> "player_exists", player_name |-> player_name,
                ret |-> PlayerExists(players, player_name)]
    /\ UNCHANGED <<players, match_history, sqlite_sequence, api, df, result, threads, locked, analyzed_player>>

Next ==
    \/ \E n \in Names : add_player(n)
    \/ \E n \in Names, b \in Batches :
          Room(b) /\ add_match_history(n, b)
    \/ \E f \in Frames : add_match_history_commit(f)
    \/ \E n \in Names : get_player_stats(n)
    \/ \E n \in Names : player_exists(n)

Spec == Init /\ [][Next]_vars

----------------------------------------------------------------------------
(* The analytics engine: src/src/analytics.py *)

\* A float computed as num / den, kept exact.  den = 0 is the NaN that
\* numpy gives for 0 / 0 and pandas for the mean of no values.
Ratio(num, den) == [num |-> num, den |-> den]

\* a - b on floats; NaN if either is NaN
Minus(a, b) == Ratio(a.num * b.den - b.num * a.den, a.den * b.den)

\* df[c]: one column of a DataFrame
Column(d, c) == [i \in DOMAIN d |-> d[i][c]]

\* Series.sum()
RECURSIVE Sum(_)
Sum(xs) == IF Len(xs) = 0 THEN 0 ELSE xs[1] + Sum(Tail(xs))

\* Series.mean()
Mean(xs) == Ratio(Sum(xs), Len(xs))

\* Series.max() of a non-empty column
Max(xs) == CHOOSE x \in {xs[i] : i \in DOMAIN xs} :
               \A i \in DOMAIN xs : xs[i] <= x

\* ~series on an int64 column: the bitwise complement of every value
Invert(xs) == [i \in DOMAIN xs |-> -xs[i] - 1]

\* Mutant of WinRate: the factor 100 forgotten
WinRate_Fraction(d) == Ratio(Sum(Column(d, "won")), Len(d))

\* df["won"].sum() / len(df) * 100
WinRate(d) == Ratio(Sum(Column(d, "won")) * 100, Len(d))

\* The empty mapping {}
Empty == [kind |-> "empty"]

\* DataFrame.head(n): the first n rows; all but the last -n rows if n < 0
HeadRows(d, n) ==
    IF n >= 0
    THEN SubSeq(d, 1, IF n < Len(d) THEN n ELSE Len(d))
    ELSE SubSeq(d, 1, Len(d) + n)

\* DataFrame.tail(n): the last n rows; all but the first -n rows if n < 0
TailRows(d, n) ==
    IF n >= 0
    THEN SubSeq(d, (IF n < Len(d) THEN Len(d) - n ELSE 0) + 1, Len(d))
    ELSE SubSeq(d, 1 - n, Len(d))

OrderedByDate(s) ==
    \A i, j \in DOMAIN s : i < j => s[i].date <= s[j].date

\* Every arrangement of the rows S that is ascending by date
RECURSIVE AscendingByDate(_)
AscendingByDate(S) ==
    IF S = {} THEN {<<>>}
    ELSE UNION {{<<r>> \o s : s \in AscendingByDate(S \ {r})} :
                   r \in {x \in S : \A y \in S : OrderedByDate(<<x, y>>)}}

\* df.sort_values("date"): the rows ascending by date.  The default sort
\* kind is quicksort, which is not stable: rows of equal date come in any
\* order.
SortValues(d) == AscendingByDate({d[i] : i \in DOMAIN d})

\* get_summary_stats
SummaryStats(d) ==
    IF Len(d) = 0 THEN Empty
    ELSE [kind        |-> "dict",
          total_games |-> Len(d),
          wins        |-> Sum(Column(d, "won")),
          losses      |-> Sum(Invert(Column(d, "won"))),
          win_rate    |-> WinRate(d),
          avg_goals   |-> Mean(Column(d, "goals")),
          avg_assists |-> Mean(Column(d, "assists")),
          avg_saves   |-> Mean(Column(d, "saves")),
          avg_shooting_pct |-> Mean(Column(d, "shooting_percentage")),
          best_goals   |-> Max(Column(d, "goals")),
          best_assists |-> Max(Column(d, "assists")),
          best_saves   |-> Max(Column(d, "saves"))]

\* Mutant of StatsByPlaylist: the null playlist is a group like the others
StatsByPlaylist_NullGroup(d) ==
    IF Len(d) = 0 THEN Empty
    ELSE LET names == {d[i].playlist : i \in DOMAIN d}
             rowsOf(p) == SelectSeq(d, LAMBDA r : r.playlist = p)
         IN  [kind |-> "dict",
              playlists |-> [p \in names |->
                  [games       |-> Len(rowsOf(p)),
                   win_rate    |-> WinRate(rowsOf(p)),
                   avg_goals   |-> Mean(Column(rowsOf(p), "goals")),
                   avg_assists |-> Mean(Column(rowsOf(p), "assists")),
                   avg_saves   |-> Mean(Column(rowsOf(p), "saves"))]]]

\* get_stats_by_playlist: one entry per playlist value that is not null
StatsByPlaylist(d) ==
    IF Len(d) = 0 THEN Empty
    ELSE LET names == {d[i].playlist : i \in DOMAIN d} \ {NULL}
             rowsOf(p) == SelectSeq(d, LAMBDA r : r.playlist = p)
         IN  IF names = {} THEN Empty
             ELSE [kind |-> "dict",
                   playlists |-> [p \in names |->
                       [games       |-> Len(rowsOf(p)),
                        win_rate    |-> WinRate(rowsOf(p)),
                        avg_goals   |-> Mean(Column(rowsOf(p), "goals")),
                        avg_assists |-> Mean(Column(rowsOf(p), "assists")),
                        avg_saves   |-> Mean(Column(rowsOf(p), "saves"))]]]

\* The window of the rolling averages
RollingWindow == 5

\* Mutant of RollingMean: the mean of everything up to position i
RollingMean_Expanding(xs, i) == Mean(SubSeq(xs, 1, i))

\* series.rolling(window=5, min_periods=1).mean() at position i
RollingMean(xs, i) ==
    Mean(SubSeq(xs, IF i > RollingWindow THEN i - RollingWindow + 1 ELSE 1, i))

\* get_performance_trend: the frames it may return
PerformanceTrend(d) ==
    IF Len(d) = 0 THEN {[kind |-> "frame", rows |-> <<>>]}
    ELSE {[kind |-> "frame",
           rows |-> [i \in DOMAIN s |->
               [row             |-> s[i],
                rolling_goals   |-> RollingMean(Column(s, "goals"), i),
                rolling_assists |-> RollingMean(Column(s, "assists"), i),
                rolling_saves   |-> RollingMean(Column(s, "saves"), i)]]]
          : s \in SortValues(d)}

\* Mutant of RecentForm: "games" reports the number asked for
RecentForm_ReportsN(d, num_games) ==
    IF Len(d) = 0 THEN Empty
    ELSE LET recent_df == HeadRows(d, num_games)
         IN  [kind        |-> "dict",
              games       |-> num_games,
              wins        |-> Sum(Column(recent_df, "won")),
              win_rate    |-> WinRate(recent_df),
              avg_goals   |-> Mean(Column(recent_df, "goals")),
              avg_assists |-> Mean(Column(recent_df, "assists")),
              avg_saves   |-> Mean(Column(recent_df, "saves"))]

\* get_recent_form
RecentForm(d, num_games) ==
    IF Len(d) = 0 THEN Empty
    ELSE LET recent_df == HeadRows(d, num_games)
         IN  [kind        |-> "dict",
              games       |-> Len(recent_df),
              wins        |-> Sum(Column(recent_df, "won")),
              win_rate    |-> WinRate(recent_df),
              avg_goals   |-> Mean(Column(recent_df, "goals")),
              avg_assists |-> Mean(Column(recent_df, "assists")),
              avg_saves   |-> Mean(Column(recent_df, "saves"))]

\* calc_stats of compare_performance
CalcStats(w) ==
    [win_rate    |-> WinRate(w),
     avg_goals   |-> Mean(Column(w, "goals")),
     avg_assists |-> Mean(Column(w, "assists")),
     avg_saves   |-> Mean(Column(w, "saves"))]

\* Mutant of ComparePerformance: the dataset is sorted once for each
\* window, so that rows of equal date may come in two orders
ComparePerformance_SortedTwice(d, first_n, last_n) ==
    IF Len(d) < first_n + last_n THEN {Empty}
    ELSE {[kind   |-> "dict",
           early  |-> CalcStats(HeadRows(s, first_n)),
           recent |-> CalcStats(TailRows(t, last_n)),
           improvement |->
               LET e == CalcStats(HeadRows(s, first_n))
                   r == CalcStats(TailRows(t, last_n))
               IN  [win_rate_change |-> Minus(r.win_rate, e.win_rate),
                    goals_change    |-> Minus(r.avg_goals, e.avg_goals),
                    assists_change  |-> Minus(r.avg_assists, e.avg_assists),
                    saves_change    |-> Minus(r.avg_saves, e.avg_saves)]]
          : s \in SortValues(d), t \in SortValues(d)}
         \cup (IF Len(d) = 0
                THEN {[kind |-> "raise", error |-> "ZeroDivisionError"]}
                ELSE {})

\* compare_performance: the results it may give.  On a frame without rows
\* the columns have dtype object and their sum is the Python int 0, for
\* which 0 / len(df) with no rows raises ZeroDivisionError; a numpy sum
\* gives NaN instead.  Either is possible there.
ComparePerformance(d, first_n, last_n) ==
    IF Len(d) < first_n + last_n THEN {Empty}
    ELSE {[kind   |-> "dict",
           early  |-> CalcStats(HeadRows(s, first_n)),
           recent |-> CalcStats(TailRows(s, last_n)),
           improvement |->
               LET e == CalcStats(HeadRows(s, first_n))
                   r == CalcStats(TailRows(s, last_n))
               IN  [win_rate_change |-> Minus(r.win_rate, e.win_rate),
                    goals_change    |-> Minus(r.avg_goals, e.avg_goals),
                    assists_change  |-> Minus(r.avg_assists, e.avg_assists),
                    saves_change    |-> Minus(r.avg_saves, e.avg_saves)]]
          : s \in SortValues(d)}
         \cup (IF Len(d) = 0
                THEN {[kind |-> "raise", error |-> "ZeroDivisionError"]}
                ELSE {})

\* Mutant of Classify: the thresholds themselves count (>= and <=)
Classify_Inclusive(mean, hi, lo, label) ==
    [strengths  |-> IF mean.num * 10 >= hi * mean.den THEN <<label>> ELSE <<>>,
     weaknesses |-> IF /\ ~(mean.num * 10 >= hi * mean.den)
                       /\ mean.num * 10 <= lo * mean.den
                    THEN <<label>> ELSE <<>>]

\* mean > hi / 10 is a strength, mean < lo / 10 a weakness (elif)
Classify(mean, hi, lo, label) ==
    [strengths  |-> IF mean.num * 10 > hi * mean.den THEN <<label>> ELSE <<>>,
     weaknesses |-> IF /\ ~(mean.num * 10 > hi * mean.den)
                       /\ mean.num * 10 < lo * mean.den
                    THEN <<label>> ELSE <<>>]

\* get_strengths_and_weaknesses
StrengthsAndWeaknesses(d) ==
    IF Len(d) = 0 THEN Empty
    ELSE LET g == Classify(Mean(Column(d, "goals")), 15, 8, "Goal scoring")
             a == Classify(Mean(Column(d, "assists")), 12, 6, "Playmaking")
             v == Classify(Mean(Column(d, "saves")), 15, 8, "Defense")
             p == Classify(Mean(Column(d, "shooting_percentage")), 400, 250,
                           "Shot accuracy")
             strengths  == g.strengths \o a.strengths \o v.strengths
                           \o p.strengths
             weaknesses == g.weaknesses \o a.weaknesses \o v.weaknesses
                           \o p.weaknesses
         IN  [kind       |-> "dict",
              strengths  |-> IF strengths # <<>> THEN strengths
                             ELSE <<"Consistent all-around player">>,
              weaknesses |-> IF weaknesses # <<>> THEN weaknesses
                             ELSE <<"Well-rounded performance">>,
              metrics    |-> [goals   |-> Mean(Column(d, "goals")),
                              assists |-> Mean(Column(d, "assists")),
                              saves   |-> Mean(Column(d, "saves")),
                              shooting_pct |->
                                  Mean(Column(d, "shooting_percentage"))]]

\* The num_games, first_n and last_n arguments tried
Counts == -1 .. MaxN

\* The games a dataset is made of.  get_summary_stats and the empty-dataset
\* branches read the won column and the length, so the datasets vary won
\* and date and keep the other stats at their defaults.
AnalyticsRecords == {r \in Records : DefaultStats(r) /\ r.replay_id = NULL}

\* Every game of a fetched match history is another replay
WithReplayIds(b) == [i \in DOMAIN b |-> [b[i] EXCEPT !.replay_id = i]]

\* PlayerAnalytics(db.get_player_stats(name)) on a database that holds one
\* ingested match history
InitAnalytics ==
    \E b \in SeqsUpTo(AnalyticsRecords, MaxGames), name \in Names :
        LET done == AddMatchHistory([rows |-> <<>>, seq |-> 0],
                                    [rows |-> <<>>, seq |-> 0],
                                    "Squishy", WithReplayIds(b))
        IN  /\ players = done.players
            /\ match_history = done.match_history
            /\ sqlite_sequence = done.sqlite_sequence
            /\ df \in ResultSets(QueryRows(players, match_history, name))
            /\ call = [op |-> "get_player_stats", player_name |-> name,
                       ret |-> df]
            /\ api = Offline
            /\ result = NoResult
            /\ threads = NoThreads
            /\ locked = FALSE
            /\ analyzed_player = {}

StoreUnchanged ==
    UNCHANGED <<players, match_history, sqlite_sequence, call, api, df, threads, locked, analyzed_player>>

get_summary_stats ==
    /\ result' = [op |-> "get_summary_stats", ret |-> SummaryStats(df)]
    /\ StoreUnchanged

get_stats_by_playlist ==
    /\ result' = [op |-> "get_stats_by_playlist", ret |-> StatsByPlaylist(df)]
    /\ StoreUnchanged

get_performance_trend ==
    /\ \E ret \in PerformanceTrend(df) :
          result' = [op |-> "get_performance_trend", ret |-> ret]
    /\ StoreUnchanged

get_recent_form(num_games) ==
    /\ result' = [op |-> "get_recent_form", num_games |-> num_games,
                  ret |-> RecentForm(df, num_games)]
    /\ StoreUnchanged

compare_performance(first_n, last_n) ==
    /\ \E ret \in ComparePerformance(df, first_n, last_n) :
          result' = [op |-> "compare_performance", first_n |-> first_n,
                     last_n |-> last_n, ret |-> ret]
    /\ StoreUnchanged

get_strengths_and_weaknesses ==
    /\ result' = [op |-> "get_strengths_and_weaknesses",
                  ret |-> StrengthsAndWeaknesses(df)]
    /\ StoreUnchanged

NextAnalytics ==
    \/ get_summary_stats
    \/ get_stats_by_playlist
    \/ get_performance_trend
    \/ \E n \in Counts : get_recent_form(n)
    \/ \E f \in Counts, l \in Counts : compare_performance(f, l)
    \/ get_strengths_and_weaknesses

SpecAnalytics == InitAnalytics /\ [][NextAnalytics]_vars

----------------------------------------------------------------------------
(* Datasets for the windowed operations: SpecWindows *)

\* The dates of a match history of n games as get_player_match_history
\* fetches it, most recent first (sort-dir desc): game i is one date older
\* than game i - 1, except that for tie < n the games tie and tie + 1 have
\* the same date.
FetchedDates(n, tie) ==
    [i \in 1 .. n |-> IF i > tie THEN n - i + 2 ELSE n - i + 1]

\* A fetched match history of n games: the dates of FetchedDates, the
\* outcome, the goals and the playlist of game i as given by won[i],
\* goals[i] and playlist[i]
FetchedHistory(n, tie, won, goals, playlist) ==
    [i \in 1 .. n |->
        [replay_id |-> i, date |-> FetchedDates(n, tie)[i],
         playlist |-> playlist[i], won |-> won[i], goals |-> goals[i],
         assists |-> 0, saves |-> 0, shooting_percentage |-> 0]]

\* PlayerAnalytics(db.get_player_stats("Squishy")) on a database that holds
\* the match history b of Squishy
InitWithHistory(b) ==
    LET done == AddMatchHistory([rows |-> <<>>, seq |-> 0],
                                [rows |-> <<>>, seq |-> 0], "Squishy", b)
    IN  /\ players = done.players
        /\ match_history = done.match_history
        /\ sqlite_sequence = done.sqlite_sequence
        /\ df \in ResultSets(QueryRows(players, match_history, "Squishy"))
        /\ call = [op |-> "get_player_stats", player_name |-> "Squishy",
                   ret |-> df]
        /\ api = Offline
        /\ result = NoResult
        /\ threads = NoThreads
        /\ locked = FALSE
        /\ analyzed_player = {}

\* The goals of one game in the datasets of SpecWindows
WindowGoals == {0, 2}

InitWindows ==
    \E n \in 0 .. MaxGames :
        \E tie \in (1 .. n) \cup {n}, won \in [1 .. n -> BOOLEAN], goals \in [1 .. n -> WindowGoals] :
            InitWithHistory(FetchedHistory(n, tie, won, goals,
                                           [i \in 1 .. n |-> NULL]))

NextWindows ==
    \/ \E n \in Counts : get_recent_form(n)
    \/ \E f \in Counts, l \in Counts : compare_performance(f, l)

SpecWindows == InitWindows /\ [][NextWindows]_vars

----------------------------------------------------------------------------
(* Datasets with playlists: SpecPlaylists *)

InitPlaylists ==
    \E n \in 0 .. MaxGames :
        \E tie \in (1 .. n) \cup {n}, won \in [1 .. n -> BOOLEAN],
           goals \in [1 .. n -> WindowGoals], playlist \in [1 .. n -> Playlists] :
            InitWithHistory(FetchedHistory(n, tie, won, goals, playlist))

SpecPlaylists == InitPlaylists /\ [][get_stats_by_playlist]_vars

----------------------------------------------------------------------------
(* Datasets with every average: SpecStrengths *)

\* A column of n games that adds up to total, spread as evenly as n allows
Spread(n, total) ==
    [i \in 1 .. n |-> (total \div n) + (IF i <= total % n THEN 1 ELSE 0)]

\* A match history of n games on n dates whose goals, assists and saves
\* add up to the given totals, every game with the same
\* shooting_percentage
SeasonHistory(n, goals, assists, saves, percentage) ==
    [i \in 1 .. n |->
        [replay_id |-> i, date |-> FetchedDates(n, n)[i], playlist |-> NULL,
         won |-> TRUE, goals |-> Spread(n, goals)[i],
         assists |-> Spread(n, assists)[i], saves |-> Spread(n, saves)[i],
         shooting_percentage |-> percentage]]

InitStrengths ==
    \E n \in 0 .. MaxSeasonGames :
        \E goals \in 0 .. MaxPerGame * n, assists \in 0 .. MaxPerGame * n,
           saves \in 0 .. MaxPerGame * n, percentage \in Percentages :
            InitWithHistory(SeasonHistory(n, goals, assists, saves, percentage))

SpecStrengths == InitStrengths /\ [][get_strengths_and_weaknesses]_vars

----------------------------------------------------------------------------
(* Datasets longer than the rolling window: SpecTrend *)

InitTrend ==
    \E n \in 0 .. MaxTrendGames :
        \E tie \in (1 .. n) \cup {n}, goals \in [1 .. n -> WindowGoals] :
            InitWithHistory(FetchedHistory(n, tie, [i \in 1 .. n |-> TRUE],
                                           goals, [i \in 1 .. n |-> NULL]))

SpecTrend == InitTrend /\ [][get_performance_trend]_vars

----------------------------------------------------------------------------
(* The replay client: src/src/data_collection.py *)

\* A Python dict is the function from its keys to their values; {} is the
\* function without keys.  d.get(k, default):
Get(d, k, default) == IF k \in DOMAIN d THEN d[k] ELSE default

EmptyDict == [k \in {} |-> NULL]

\* d with d[k] = v for the v of vs, a set of one value; d if vs is empty
Put(d, k, vs) ==
    IF vs = {} THEN d
    ELSE [x \in DOMAIN d \cup {k} |->
             IF x = k THEN CHOOSE v \in vs : TRUE ELSE d[x]]

\* An absent key, or the key with one of the values of S
Optional(S) == {{}} \cup {{v} : v \in S}

\* A str is the sequence of its characters.  str.lower() maps every
\* uppercase letter to its lowercase letter and leaves the others.
UpperCase == <<"A", "B", "F", "O", "R">>

LowerCase == <<"a", "b", "f", "o", "r">>

LowerChar(c) ==
    IF \E i \in DOMAIN UpperCase : UpperCase[i] = c
    THEN LowerCase[CHOOSE i \in DOMAIN UpperCase : UpperCase[i] = c]
    ELSE c

Lower(str) == [i \in DOMAIN str |-> LowerChar(str[i])]

\* The names looked up
LookupNames ==
    {<<"f", "o", "o">>, <<"F", "O", "O">>, <<"F", "o", "o">>,
     <<"F", "o", "o", "b", "a", "r">>, <<"B", "a", "r">>}

\* The "core" dict of a player with every stat, and without
\* shooting_percentage
FullCore ==
    [goals |-> 2, assists |-> 1, saves |-> 1, shooting_percentage |-> 40]

CoreWithoutPercentage == [goals |-> 2, assists |-> 1, saves |-> 1]

\* The entries of a team's "players" list
PlayerDicts ==
    {[name |-> <<"F", "o", "o">>, stats |-> [core |-> FullCore]],
     [name |-> <<"F", "o", "o">>, stats |-> [core |-> CoreWithoutPercentage]],
     [name |-> <<"F", "o", "o">>],
     [name |-> <<"F", "o", "o", "b", "a", "r">>, stats |-> [core |-> FullCore]],
     [stats |-> EmptyDict]}

\* The goal totals of a team
TeamGoals == {1, 3}

\* The "blue" / "orange" dict of a replay detail
TeamDicts ==
    {Put(Put(EmptyDict, "players", roster), "stats", stats) :
        roster \in Optional(SeqsUpTo(PlayerDicts, MaxRoster)),
        stats \in Optional({[core |-> [goals |-> g]] : g \in TeamGoals})}

\* The replay metadata: complete, without id, without anything
MetaDicts ==
    {[id |-> 1, date |-> 1, playlist_name |-> 1],
     [date |-> 1, playlist_name |-> 1],
     EmptyDict}

\* The JSON bodies of GET /replays/{id}
ReplayDetails ==
    {Put(Put(meta, "blue", blue), "orange", orange) :
        meta \in MetaDicts,
        blue \in Optional(TeamDicts), orange \in Optional(TeamDicts)}

\* replay_data.get(team_color, {}).get("players", [])
RosterOf(replay_data, team_color) ==
    Get(Get(replay_data, team_color, EmptyDict), "players", <<>>)

\* Mutant of NameMatches: the name looked up is the beginning of the name
\* on the roster
NameMatches_Prefix(player, player_name) ==
    LET name == Lower(Get(player, "name", <<>>))
    IN  /\ Len(name) >= Len(player_name)
        /\ SubSeq(name, 1, Len(player_name)) = Lower(player_name)

\* player.get("name", "").lower() == player_name.lower()
NameMatches(player, player_name) ==
    Lower(Get(player, "name", <<>>)) = Lower(player_name)

\* The position of the first player of the roster that matches, 0 if none
FirstMatch(roster, player_name) ==
    IF \E i \in DOMAIN roster : NameMatches(roster[i], player_name)
    THEN CHOOSE i \in DOMAIN roster :
             /\ NameMatches(roster[i], player_name)
             /\ \A j \in 1 .. i - 1 : ~NameMatches(roster[j], player_name)
    ELSE 0

\* replay_data.get(color, {}).get("stats", {}).get("core", {}).get("goals", 0)
GoalsOf(replay_data, team_color) ==
    Get(Get(Get(Get(replay_data, team_color, EmptyDict),
                "stats", EmptyDict), "core", EmptyDict), "goals", 0)

\* Mutant of Won: a draw counts as a win
Won_OrEqual(replay_data, team_color) ==
    IF team_color = "blue"
    THEN GoalsOf(replay_data, "blue") >= GoalsOf(replay_data, "orange")
    ELSE GoalsOf(replay_data, "orange") >= GoalsOf(replay_data, "blue")

\* Determine if player won
Won(replay_data, team_color) ==
    IF team_color = "blue"
    THEN GoalsOf(replay_data, "blue") > GoalsOf(replay_data, "orange")
    ELSE GoalsOf(replay_data, "orange") > GoalsOf(replay_data, "blue")

\* Mutant of PlayerStats: shooting_percentage read without a default
PlayerStats_NoDefault(replay_data, team_color, player) ==
    LET core == Get(Get(player, "stats", EmptyDict), "core", EmptyDict)
    IN  [replay_id   |-> Get(replay_data, "id", NULL),
         date        |-> Get(replay_data, "date", NULL),
         playlist    |-> Get(replay_data, "playlist_name", NULL),
         player_name |-> Get(player, "name", NULL),
         team        |-> team_color,
         won         |-> Won(replay_data, team_color),
         goals       |-> Get(core, "goals", 0),
         assists     |-> Get(core, "assists", 0),
         saves       |-> Get(core, "saves", 0),
         shooting_percentage |-> Get(core, "shooting_percentage", NULL)]

\* The dict get_player_stats_from_replay returns for the matched player
PlayerStats(replay_data, team_color, player) ==
    LET core == Get(Get(player, "stats", EmptyDict), "core", EmptyDict)
    IN  [replay_id   |-> Get(replay_data, "id", NULL),
         date        |-> Get(replay_data, "date", NULL),
         playlist    |-> Get(replay_data, "playlist_name", NULL),
         player_name |-> Get(player, "name", NULL),
         team        |-> team_color,
         won         |-> Won(replay_data, team_color),
         goals       |-> Get(core, "goals", 0),
         assists     |-> Get(core, "assists", 0),
         saves       |-> Get(core, "saves", 0),
         shooting_percentage |-> Get(core, "shooting_percentage", 0)]

\* The None a method returns in place of a dict
None == [kind |-> "None"]

\* get_player_stats_from_replay: the blue roster, then the orange roster
PlayerStatsFromReplay(replay_data, player_name) ==
    LET blue   == RosterOf(replay_data, "blue")
        orange == RosterOf(replay_data, "orange")
    IN  IF FirstMatch(blue, player_name) > 0
        THEN PlayerStats(replay_data, "blue",
                         blue[FirstMatch(blue, player_name)])
        ELSE IF FirstMatch(orange, player_name) > 0
        THEN PlayerStats(replay_data, "orange",
                         orange[FirstMatch(orange, player_name)])
        ELSE None

\* The service holds one replay, whose detail is replay_data
ServesReplay(replay_data) ==
    [search  |-> [ok |-> TRUE, json |-> [list |-> <<[id |-> 1]>>]],
     details |-> <<[ok |-> TRUE, json |-> replay_data]>>]

InitExtract ==
    /\ players = <<>>
    /\ match_history = <<>>
    /\ sqlite_sequence = [players |-> 0, match_history |-> 0]
    /\ call = NoCall
    /\ \E replay_data \in ReplayDetails : api = ServesReplay(replay_data)
    /\ df = <<>>
    /\ result = NoResult
    /\ threads = NoThreads
    /\ locked = FALSE
    /\ analyzed_player = {}

\* get_player_stats_from_replay on a detail fetched from the service
get_player_stats_from_replay(replay_data, player_name) ==
    /\ \E i \in DOMAIN api.details :
          api.details[i].ok /\ api.details[i].json = replay_data
    /\ call' = [op |-> "get_player_stats_from_replay",
                replay_data |-> replay_data, player_name |-> player_name,
                ret |-> PlayerStatsFromReplay(replay_data, player_name)]
    /\ UNCHANGED <<players, match_history, sqlite_sequence, api, df, result, threads, locked, analyzed_player>>

NextExtract ==
    \E i \in DOMAIN api.details, n \in LookupNames :
        /\ api.details[i].ok
        /\ get_player_stats_from_replay(api.details[i].json, n)

SpecExtract == InitExtract /\ [][NextExtract]_vars

----------------------------------------------------------------------------
(* search_replays: SpecSearch *)

\* raise_for_status() on a 4xx/5xx answer; Failed is requests.get itself
\* raising.  Both are requests.exceptions.RequestException.
HttpError == [ok |-> FALSE, status |-> 500]

\* The entries of a search response's "list"
SearchMetas == {[id |-> r] : r \in 1 .. MaxReplay} \cup {EmptyDict}

\* The JSON bodies of a search response: with a "list", or without
SearchBodies ==
    {[list |-> l] : l \in SeqsUpTo(SearchMetas, MaxSearch)} \cup {EmptyDict}

\* What GET /replays may do
SearchResponses ==
    {Failed, HttpError} \cup {[ok |-> TRUE, json |-> b] : b \in SearchBodies}


\* min(a, b)
MinOf(a, b) == IF a <= b THEN a ELSE b

\* Mutant of SearchParams: count is passed on as it is
SearchParams_Unclamped(player_name, count) ==
    ("player-name" :> player_name) @@ ("count" :> count)
    @@ ("sort-by" :> "replay-date") @@ ("sort-dir" :> "desc")

\* The query parameters of search_replays
SearchParams(player_name, count) ==
    ("player-name" :> player_name) @@ ("count" :> MinOf(count, ApiMaxCount))
    @@ ("sort-by" :> "replay-date") @@ ("sort-dir" :> "desc")

\* search_replays against the service a: the request it sends and the
\* list it returns
SearchReplays(a, player_name, count) ==
    [params |-> SearchParams(player_name, count),
     ret    |-> IF a.search.ok THEN Get(a.search.json, "list", <<>>)
                ELSE <<>>]

InitSearch ==
    /\ players = <<>>
    /\ match_history = <<>>
    /\ sqlite_sequence = [players |-> 0, match_history |-> 0]
    /\ call = NoCall
    /\ \E r \in SearchResponses : api = [search |-> r, details |-> <<>>]
    /\ df = <<>>
    /\ result = NoResult
    /\ threads = NoThreads
    /\ locked = FALSE
    /\ analyzed_player = {}

search_replays(player_name, count) ==
    /\ LET s == SearchReplays(api, player_name, count)
       IN  call' = [op |-> "search_replays", player_name |-> player_name,
                    count |-> count, params |-> s.params, ret |-> s.ret]
    /\ UNCHANGED <<players, match_history, sqlite_sequence, api, df, result, threads, locked, analyzed_player>>

NextSearch ==
    \E n \in LookupNames,
       count \in {0, 1, DefaultCount,
                  ApiMaxCount - 1, ApiMaxCount, ApiMaxCount + 1} :
        search_replays(n, count)

SpecSearch == InitSearch /\ [][NextSearch]_vars

----------------------------------------------------------------------------
(* get_player_match_history: SpecHistory *)

\* The players of the details the service serves
Foo == [name |-> <<"F", "o", "o">>, stats |-> [core |-> FullCore]]

Foobar ==
    [name |-> <<"F", "o", "o", "b", "a", "r">>, stats |-> [core |-> FullCore]]

\* The JSON bodies of GET /replays/{id} in SpecHistory: a game of Foo
\* (blue) against Foobar, a game of Foobar alone, and the empty object
FetchedDetails ==
    {[id |-> r, date |-> 1, playlist_name |-> 1,
      blue   |-> [players |-> <<Foo>>, stats |-> [core |-> [goals |-> 3]]],
      orange |-> [players |-> <<Foobar>>, stats |-> [core |-> [goals |-> 1]]]]
        : r \in 1 .. MaxReplay}
    \cup
    {[id |-> r, date |-> 1, playlist_name |-> 1,
      blue   |-> [players |-> <<Foobar>>, stats |-> [core |-> [goals |-> 1]]]]
        : r \in 1 .. MaxReplay}
    \cup {EmptyDict}

\* What GET /replays/{id} may do
DetailResponses ==
    {Failed, HttpError} \cup {[ok |-> TRUE, json |-> d] : d \in FetchedDetails}

\* get_replay_details for the i-th replay of the search: the body, or None
GetReplayDetails(a, i) ==
    IF i \in DOMAIN a.details /\ a.details[i].ok THEN a.details[i].json
    ELSE None

\* "not detailed_replay": None, or a dict without keys
Falsy(detailed_replay) ==
    detailed_replay = None \/ DOMAIN detailed_replay = {}

\* Check if player with exact name is in this replay
PlayerFound(detailed_replay, player_name) ==
    \/ FirstMatch(RosterOf(detailed_replay, "blue"), player_name) > 0
    \/ FirstMatch(RosterOf(detailed_replay, "orange"), player_name) > 0

\* The calls the method makes, in order
FetchEvent(replay_id) == [op |-> "get_replay_details", replay_id |-> replay_id]

SleepEvent == [op |-> "sleep", ms |-> SleepMs]

\* The head of a pass of the loop body: the request for the detail of
\* replays[i] is sent, after the calls made so far (acc)
RequestDetails(replays, i, acc) ==
    LET replay_id == Get(replays[i], "id", NULL)
    IN  [acc EXCEPT !.events = Append(@, FetchEvent(replay_id))]

\* The rest of the pass, once the request for the detail of replays[i]
\* has come back, from the list and the calls made so far (fetched)
ProcessReplay(a, player_name, i, fetched) ==
    LET detailed_replay == GetReplayDetails(a, i)
    IN  IF Falsy(detailed_replay) THEN fetched
        ELSE IF ~PlayerFound(detailed_replay, player_name) THEN fetched
        ELSE LET player_stats ==
                     PlayerStatsFromReplay(detailed_replay, player_name)
             IN  [match_history |->
                      IF player_stats # None
                      THEN Append(fetched.match_history, player_stats)
                      ELSE fetched.match_history,
                  events |-> Append(fetched.events, SleepEvent)]

\* Mutant of ProcessReplays: the loop ends at the first replay whose
\* detail cannot be fetched
RECURSIVE ProcessReplays_StopAtFailure(_, _, _, _, _)
ProcessReplays_StopAtFailure(a, replays, player_name, i, acc) ==
    IF i > Len(replays) THEN acc
    ELSE IF GetReplayDetails(a, i) = None
    THEN RequestDetails(replays, i, acc)
    ELSE ProcessReplays_StopAtFailure(a, replays, player_name, i + 1,
             ProcessReplay(a, player_name, i,
                           RequestDetails(replays, i, acc)))

\* for i, replay in enumerate(replays, 1), from position i on
RECURSIVE ProcessReplays(_, _, _, _, _)
ProcessReplays(a, replays, player_name, i, acc) ==
    IF i > Len(replays) THEN acc
    ELSE ProcessReplays(a, replays, player_name, i + 1,
             ProcessReplay(a, player_name, i,
                           RequestDetails(replays, i, acc)))

\* get_player_match_history against the service a: the list it returns
\* and the calls it makes
PlayerMatchHistory(a, player_name, num_games) ==
    LET s      == SearchReplays(a, player_name, num_games)
        search == [op |-> "search_replays", params |-> s.params]
    IN  IF s.ret = <<>>
        THEN [match_history |-> <<>>, events |-> <<search>>]
        ELSE ProcessReplays(a, s.ret, player_name, 1,
                            [match_history |-> <<>>, events |-> <<search>>])

\* The services of SpecHistory: the search fails, or lists replays, each
\* with what the fetch of its detail does
HistoryServices ==
    {[search |-> r, details |-> <<>>] :
        r \in {Failed, HttpError, [ok |-> TRUE, json |-> EmptyDict]}}
    \cup
    UNION {{[search  |-> [ok |-> TRUE, json |-> [list |-> l]],
             details |-> d] : d \in [1 .. Len(l) -> DetailResponses]} :
              l \in SeqsUpTo(SearchMetas, MaxSearch)}

\* The names looked up: on a roster but for case, on a roster, on none
HistoryNames ==
    {<<"f", "o", "o">>, <<"F", "o", "o", "b", "a", "r">>, <<"B", "a", "r">>}


InitHistory ==
    /\ players = <<>>
    /\ match_history = <<>>
    /\ sqlite_sequence = [players |-> 0, match_history |-> 0]
    /\ call = NoCall
    /\ api \in HistoryServices
    /\ df = <<>>
    /\ result = NoResult
    /\ threads = NoThreads
    /\ locked = FALSE
    /\ analyzed_player = {}

get_player_match_history(player_name, num_games) ==
    /\ LET h == PlayerMatchHistory(api, player_name, num_games)
       IN  call' = [op |-> "get_player_match_history",
                    player_name |-> player_name, num_games |-> num_games,
                    ret |-> h.match_history, events |-> h.events]
    /\ UNCHANGED <<players, match_history, sqlite_sequence, api, df, result, threads, locked, analyzed_player>>

NextHistory ==
    \E n \in HistoryNames, num_games \in {DefaultCount, ApiMaxCount + 1} :
        get_player_match_history(n, num_games)

SpecHistory == InitHistory /\ [][NextHistory]_vars

----------------------------------------------------------------------------
(* Properties of the store, checked under Spec *)

\* The match_history rows of the player stored under player_name
RowsOf(player_name) ==
    {r \in {match_history[j] : j \in DOMAIN match_history} :
        \E k \in DOMAIN players :
            /\ players[k].player_name = player_name
            /\ players[k].player_id = r.player_id}

\* The step in which the thread with the frame f commits its INSERTs and
\* returns from add_match_history
Returning(f) ==
    /\ f.pc = "insert"
    /\ threads' = Return(f)
    /\ call'.op = "add_match_history"

\* C1: calling add_match_history(name, batch) a second time with the same
\* name and the same batch leaves the stored rows and every total_games as
\* they were after the first call.
C1_ReingestIdempotent ==
    [][\A f \in Frames :
          (/\ Returning(f)
           /\ call.op = "add_match_history"
           /\ call.player_name = f.player_name
           /\ call.match_data = f.match_data)
          => (match_history' = match_history /\ players' = players)]_vars

\* C2: replay_id uniqueness is scoped per player: after
\* add_match_history(B, batch), every replay of the batch that is already
\* stored for another player is stored for B as well, so that
\* get_player_stats returns it for both.
C2_ReplayStoredPerPlayer ==
    call.op = "add_match_history" =>
        \A i \in DOMAIN call.match_data :
            (\E n \in Names \ {call.player_name} : \E r \in RowsOf(n) :
                r.replay_id = call.match_data[i].replay_id)
            => \E r \in RowsOf(call.player_name) :
                r.replay_id = call.match_data[i].replay_id

\* C3: no two stored match_history rows have the same
\* (player_id, replay_id) pair.
C3_UniquePlayerReplay ==
    \A i, j \in DOMAIN match_history :
        (/\ match_history[i].player_id = match_history[j].player_id
         /\ match_history[i].replay_id = match_history[j].replay_id)
        => i = j

\* C4: the games_added count that add_match_history reports is the number
\* of rows the call added to match_history.
C4_GamesAddedIsRowsAdded ==
    [][\A f \in Frames :
          Returning(f)
          => call'.games_added
                = Len(match_history') - Len(match_history)]_vars

\* C5: at every operation boundary each player's total_games is the number
\* of match_history rows that carry the player's player_id.
C5_TotalGamesIsRowCount ==
    \A k \in DOMAIN players :
        players[k].total_games =
            Cardinality({j \in DOMAIN match_history :
                match_history[j].player_id = players[k].player_id})

\* C5 witness: two players are stored and each has a match record counted.
C5_Witness ==
    /\ call.op = "add_match_history"
    /\ Len(players) = 2
    /\ \A k \in DOMAIN players : players[k].total_games = 1

\* C6: no operation updates or deletes a stored match_history row: every
\* row keeps its position and all its field values, and the table only
\* grows; in particular a record whose replay_id is already stored does not
\* overwrite the stored row.
C6_RowsImmutable ==
    [][/\ Len(match_history') >= Len(match_history)
       /\ \A i \in DOMAIN match_history :
             match_history'[i] = match_history[i]]_vars

\* C6 witness: add_match_history was given one record whose replay_id is
\* stored with another date, and the stored row still has its own date.
C6_Witness ==
    /\ call.op = "add_match_history"
    /\ Len(call.match_data) = 1
    /\ call.match_data[1].replay_id # NULL
    /\ \E j \in DOMAIN match_history :
          /\ match_history[j].replay_id = call.match_data[1].replay_id
          /\ match_history[j].date # call.match_data[1].date

\* C7: get_player_stats(name) returns each stored row of the player named
\* name exactly once, no row of another player, most recent date first.
C7_PlayerStatsExactAndOrdered ==
    call.op = "get_player_stats" =>
        /\ {call.ret[i] : i \in DOMAIN call.ret} = RowsOf(call.player_name)
        /\ Len(call.ret) = Cardinality(RowsOf(call.player_name))
        /\ \A i \in 1 .. Len(call.ret) - 1 :
              call.ret[i].date >= call.ret[i + 1].date

\* C7 witness: get_player_stats returned a player's record while the table
\* also holds a record of the other player.
C7_Witness ==
    /\ call.op = "get_player_stats"
    /\ Len(call.ret) = 1
    /\ Len(match_history) = 2
    /\ call.ret[1].player_id = players[PlayerIdOf(players, call.player_name)].player_id
    /\ \E j \in DOMAIN match_history :
          match_history[j].player_id # call.ret[1].player_id

----------------------------------------------------------------------------
(* Properties of the analytics engine, checked under SpecAnalytics *)

\* C8: on every non-empty dataset read back from the store,
\* get_summary_stats gives wins + losses = total_games.
C8_WinsPlusLossesIsTotal ==
    (result.op = "get_summary_stats" /\ Len(df) > 0) =>
        /\ result.ret.kind = "dict"
        /\ result.ret.wins + result.ret.losses = result.ret.total_games

\* C9: on every non-empty dataset get_summary_stats gives
\* win_rate = wins / total_games * 100, a number in [0, 100].
C9_WinRate ==
    (result.op = "get_summary_stats" /\ Len(df) > 0) =>
        /\ result.ret.kind = "dict"
        /\ result.ret.win_rate.den > 0
        /\ result.ret.win_rate.num * result.ret.total_games
               = result.ret.wins * 100 * result.ret.win_rate.den
        /\ 0 <= result.ret.win_rate.num
        /\ result.ret.win_rate.num <= 100 * result.ret.win_rate.den

\* C9 witness: get_summary_stats ran on a dataset with a win and a loss.
C9_Witness ==
    /\ result.op = "get_summary_stats"
    /\ \E i, j \in DOMAIN df : df[i].won = 1 /\ df[j].won = 0

\* An empty mapping or an empty frame
IsEmptyResult(ret) ==
    \/ ret.kind = "empty"
    \/ ret.kind = "frame" /\ ret.rows = <<>>

\* C10: on an empty dataset every PlayerAnalytics operation, for every
\* argument value, returns an empty result and does not raise.
C10_EmptyDatasetEmptyResult ==
    (result.op # "none" /\ Len(df) = 0) => IsEmptyResult(result.ret)

----------------------------------------------------------------------------
(* Properties of the windowed operations, checked under SpecWindows *)

\* The sum of column c over the rows of d at the positions I
RECURSIVE TotalOf(_, _, _)
TotalOf(d, c, I) ==
    IF I = {} THEN 0
    ELSE LET i == CHOOSE j \in I : TRUE
         IN  d[i][c] + TotalOf(d, c, I \ {i})

\* The float x is the quotient total / count
IsQuotient(x, total, count) ==
    IF count = 0 THEN x.den = 0
    ELSE x.den > 0 /\ x.num * count = total * x.den

\* C11: on a non-empty dataset in date-descending order, get_recent_form(n)
\* with n >= 0 reports games = min(n, len(df)), and its wins, win_rate and
\* averages are those of the first min(n, len(df)) rows, none of which is
\* older than a row left out.
C11_RecentFormOverMostRecent ==
    (result.op = "get_recent_form" /\ result.num_games >= 0 /\ Len(df) > 0) =>
        LET k    == IF result.num_games < Len(df) THEN result.num_games
                    ELSE Len(df)
            used == 1 .. k
        IN  /\ result.ret.kind = "dict"
            /\ result.ret.games = k
            /\ result.ret.wins = Cardinality({i \in used : df[i].won = 1})
            /\ IsQuotient(result.ret.win_rate, 100 * result.ret.wins, k)
            /\ IsQuotient(result.ret.avg_goals, TotalOf(df, "goals", used), k)
            /\ IsQuotient(result.ret.avg_assists, TotalOf(df, "assists", used), k)
            /\ IsQuotient(result.ret.avg_saves, TotalOf(df, "saves", used), k)
            /\ \A i \in used, j \in (k + 1) .. Len(df) :
                  df[i].date >= df[j].date

\* C11 witness: get_recent_form was asked for more games than the dataset
\* of won and lost games with goals holds.
C11_Witness ==
    /\ result.op = "get_recent_form"
    /\ result.num_games > Len(df)
    /\ Len(df) > 0
    /\ result.ret.games = Len(df)
    /\ \E i, j \in DOMAIN df : df[i].goals > 0 /\ df[j].won = 0

\* C11 second case: fewer games asked for than the dataset holds.
C11_WitnessMostRecent ==
    /\ result.op = "get_recent_form"
    /\ result.num_games > 0
    /\ result.num_games < Len(df)
    /\ df[result.num_games].date > df[Len(df)].date

\* The float x is the difference a - b of two floats (NaN if either is)
IsDifference(x, a, b) ==
    IF a.den = 0 \/ b.den = 0 THEN x.den = 0
    ELSE x.den > 0 /\ x.num * a.den * b.den
                        = (a.num * b.den - b.num * a.den) * x.den

\* The positions W of df are its count rows of lowest rank, where rank is
\* the date for the earliest rows and minus the date for the latest
IsWindow(W, count, sign) ==
    /\ Cardinality(W) = count
    /\ \A i \in W, j \in DOMAIN df \ W :
          sign * df[i].date <= sign * df[j].date

\* The stats st are those of the rows of df at the positions W
IsStatsOf(st, W) ==
    /\ IsQuotient(st.win_rate,
                  100 * Cardinality({i \in W : df[i].won = 1}), Cardinality(W))
    /\ IsQuotient(st.avg_goals, TotalOf(df, "goals", W), Cardinality(W))
    /\ IsQuotient(st.avg_assists, TotalOf(df, "assists", W), Cardinality(W))
    /\ IsQuotient(st.avg_saves, TotalOf(df, "saves", W), Cardinality(W))

\* What compare_performance(first_n, last_n) is to return: the empty
\* mapping exactly when len(df) < first_n + last_n, and otherwise the stats
\* of the first_n earliest rows, those of the last_n latest rows, and
\* goals_change = recent avg_goals - early avg_goals
CompareResultIsRight ==
    IF Len(df) < result.first_n + result.last_n
    THEN result.ret = Empty
    ELSE /\ result.ret.kind = "dict"
         /\ \E early \in SUBSET DOMAIN df :
               /\ IsWindow(early, result.first_n, 1)
               /\ IsStatsOf(result.ret.early, early)
         /\ \E recent \in SUBSET DOMAIN df :
               /\ IsWindow(recent, result.last_n, -1)
               /\ IsStatsOf(result.ret.recent, recent)
         /\ IsDifference(result.ret.improvement.goals_change,
                         result.ret.recent.avg_goals,
                         result.ret.early.avg_goals)

\* C12: for first_n, last_n >= 0, compare_performance(first_n, last_n)
\* returns the empty mapping exactly when len(df) < first_n + last_n;
\* otherwise early is computed over the first_n earliest-dated rows, recent
\* over the last_n latest-dated rows, and improvement.goals_change is
\* recent.avg_goals - early.avg_goals.
C12_CompareWindows ==
    (/\ result.op = "compare_performance"
     /\ result.first_n >= 0 /\ result.last_n >= 0)
    => CompareResultIsRight

\* The statement of C12 on the datasets that hold at least one game
CompareWindowsOnGames ==
    (/\ result.op = "compare_performance"
     /\ result.first_n >= 0 /\ result.last_n >= 0
     /\ Len(df) > 0)
    => CompareResultIsRight

\* compare_performance(1, 1) found one more goal per game in the recent
\* window than in the early one
CompareWindowsOnGames_Witness ==
    /\ result.op = "compare_performance"
    /\ result.first_n = 1 /\ result.last_n = 1
    /\ result.ret.kind = "dict"
    /\ result.ret.improvement.goals_change = Ratio(2, 1)

\* C27: when compare_performance(first_n, last_n) with first_n, last_n >= 0
\* returns a result that is not empty, the rows counted in early and the
\* rows counted in recent are disjoint: the result is that of first_n
\* earliest rows and of last_n latest rows with no row in both.
C27_WindowsDisjoint ==
    (/\ result.op = "compare_performance"
     /\ result.first_n >= 0 /\ result.last_n >= 0
     /\ result.ret.kind = "dict")
    => \E early \in SUBSET DOMAIN df, recent \in SUBSET DOMAIN df :
          /\ early \cap recent = {}
          /\ IsWindow(early, result.first_n, 1)
          /\ IsStatsOf(result.ret.early, early)
          /\ IsWindow(recent, result.last_n, -1)
          /\ IsStatsOf(result.ret.recent, recent)

\* C27 witness: compare_performance(1, 1) on two games of the same date
\* and different goals; the two windows hold one game each.
C27_Witness ==
    /\ result.op = "compare_performance"
    /\ result.first_n = 1 /\ result.last_n = 1
    /\ Len(df) = 2
    /\ df[1].date = df[2].date
    /\ df[1].goals # df[2].goals
    /\ result.ret.kind = "dict"
    /\ result.ret.early.avg_goals # result.ret.recent.avg_goals

\* The recent stats of every result compare_performance(first_n, n) may
\* give on df are the stats get_recent_form has reported
SameRecentAs(form, first_n, n) ==
    \A c \in ComparePerformance(df, first_n, n) :
        /\ c.kind = "dict"
        /\ c.recent.win_rate = form.win_rate
        /\ c.recent.avg_goals = form.avg_goals
        /\ c.recent.avg_assists = form.avg_assists
        /\ c.recent.avg_saves = form.avg_saves

\* C29: on a dataset of get_player_stats with len(df) >= first_n + n and
\* n >= 1, get_recent_form(n) and the recent entry of
\* compare_performance(first_n, n) report the same win_rate, avg_goals,
\* avg_assists and avg_saves, also when games have the same date.
C29_RecentComputationsAgree ==
    (/\ result.op = "get_recent_form"
     /\ result.num_games >= 1)
    => \A first_n \in {f \in Counts : f >= 0} :
          Len(df) >= first_n + result.num_games
              => SameRecentAs(result.ret, first_n, result.num_games)

\* What the code keeps of C29: the two agree when the last game of the
\* head(n) window is later than the game that follows it in df, or when the
\* window is the whole dataset.
RecentAgreeOnDistinctDates ==
    (/\ result.op = "get_recent_form"
     /\ result.num_games >= 1
     /\ \/ Len(df) = result.num_games
        \/ /\ Len(df) > result.num_games
           /\ df[result.num_games].date > df[result.num_games + 1].date)
    => \A first_n \in {f \in Counts : f >= 0} :
          Len(df) >= first_n + result.num_games
              => SameRecentAs(result.ret, first_n, result.num_games)

\* get_recent_form(1) on two games of different dates and goals, where
\* compare_performance(1, 1) has a result
RecentAgreeOnDistinctDates_Witness ==
    /\ result.op = "get_recent_form"
    /\ result.num_games = 1
    /\ Len(df) = 2
    /\ df[1].date > df[2].date
    /\ df[1].goals # df[2].goals
    /\ SameRecentAs(result.ret, 1, 1)

\* C16: get_stats_by_playlist has exactly one group per playlist value of
\* the dataset that is not null, the games of a group is the number of
\* rows with its playlist, the games of all groups add up to the number of
\* rows with a playlist, and a dataset whose every playlist is null (or
\* that has no rows) gives {}.
C16_OneGroupPerPlaylist ==
    result.op = "get_stats_by_playlist" =>
        LET names == {df[i].playlist : i \in DOMAIN df} \ {NULL}
        IN  IF names = {} THEN result.ret = Empty
            ELSE /\ result.ret.kind = "dict"
                 /\ DOMAIN result.ret.playlists = names
                 /\ \A p \in names :
                       result.ret.playlists[p].games
                           = Cardinality({i \in DOMAIN df : df[i].playlist = p})
                 /\ TotalOf(result.ret.playlists, "games", names)
                       = Cardinality({i \in DOMAIN df : df[i].playlist # NULL})

\* C16 witness: the dataset has a game without playlist and a game with
\* one, and the result has the one group of one game.
C16_Witness ==
    /\ result.op = "get_stats_by_playlist"
    /\ Len(df) = 2
    /\ \E i, j \in DOMAIN df : df[i].playlist = NULL /\ df[j].playlist = 1
    /\ result.ret.kind = "dict"
    /\ DOMAIN result.ret.playlists = {1}
    /\ result.ret.playlists[1].games = 1

\* C16 second case: every playlist of a dataset of two games is null.
C16_WitnessAllNull ==
    /\ result.op = "get_stats_by_playlist"
    /\ Len(df) = 2
    /\ \A i \in DOMAIN df : df[i].playlist = NULL
    /\ result.ret = Empty

----------------------------------------------------------------------------
(* Properties of the classification, checked under SpecStrengths *)

\* The sum of column c of the dataset
ColumnTotal(c) == TotalOf(df, c, DOMAIN df)

\* The average of column c is above tenths / 10
AverageAbove(c, tenths) == ColumnTotal(c) * 10 > tenths * Len(df)

\* The average of column c is below tenths / 10
AverageBelow(c, tenths) == ColumnTotal(c) * 10 < tenths * Len(df)

\* The elements of a list
Listed(list) == {list[i] : i \in DOMAIN list}

\* The labels with the column and the two thresholds (in tenths) of each
Labels ==
    {[label |-> "Goal scoring", column |-> "goals", hi |-> 15, lo |-> 8],
     [label |-> "Playmaking", column |-> "assists", hi |-> 12, lo |-> 6],
     [label |-> "Defense", column |-> "saves", hi |-> 15, lo |-> 8],
     [label |-> "Shot accuracy", column |-> "shooting_percentage",
      hi |-> 400, lo |-> 250]}

\* C17: on a non-empty dataset get_strengths_and_weaknesses lists a label
\* as a strength exactly when the average of its column is strictly above
\* the upper threshold and as a weakness exactly when it is strictly below
\* the lower one (goals 1.5 / 0.8, assists 1.2 / 0.6, saves 1.5 / 0.8,
\* shooting_percentage 40 / 25), so that no label is in both lists; the
\* strengths are exactly ["Consistent all-around player"] when no label is
\* a strength, the weaknesses exactly ["Well-rounded performance"] when no
\* label is a weakness, and neither list is empty.
C17_FixedStrictThresholds ==
    (result.op = "get_strengths_and_weaknesses" /\ Len(df) > 0) =>
        LET strong == {l \in Labels : AverageAbove(l.column, l.hi)}
            weak   == {l \in Labels : AverageBelow(l.column, l.lo)}
        IN  /\ result.ret.kind = "dict"
            /\ \A l \in Labels :
                  /\ l.label \in Listed(result.ret.strengths) <=> l \in strong
                  /\ l.label \in Listed(result.ret.weaknesses) <=> l \in weak
            /\ Listed(result.ret.strengths) \cap Listed(result.ret.weaknesses)
                  = {}
            /\ strong = {} <=>
                  result.ret.strengths = <<"Consistent all-around player">>
            /\ weak = {} <=>
                  result.ret.weaknesses = <<"Well-rounded performance">>
            /\ Len(result.ret.strengths) = Cardinality(strong)
                  + (IF strong = {} THEN 1 ELSE 0)
            /\ Len(result.ret.weaknesses) = Cardinality(weak)
                  + (IF weak = {} THEN 1 ELSE 0)
            /\ result.ret.strengths # <<>>
            /\ result.ret.weaknesses # <<>>

\* C17 witness: the averages are goals 0.8, assists 1.2, saves 0.8 and
\* shooting_percentage 25, each on a threshold, and both lists hold their
\* default.
C17_Witness ==
    /\ result.op = "get_strengths_and_weaknesses"
    /\ Len(df) > 0
    /\ ColumnTotal("goals") * 10 = 8 * Len(df)
    /\ ColumnTotal("assists") * 10 = 12 * Len(df)
    /\ ColumnTotal("saves") * 10 = 8 * Len(df)
    /\ ColumnTotal("shooting_percentage") = 25 * Len(df)
    /\ result.ret.strengths = <<"Consistent all-around player">>
    /\ result.ret.weaknesses = <<"Well-rounded performance">>

----------------------------------------------------------------------------
(* Properties of the trend, checked under SpecTrend *)

\* The rows of the frame that get_performance_trend returned, without the
\* rolling columns
TrendRows == [i \in DOMAIN result.ret.rows |-> result.ret.rows[i].row]

\* The positions of the window that ends at position i
WindowAt(i) == (IF i > 5 THEN i - 4 ELSE 1) .. i

\* The frame returned has the rows of the dataset, each once, ascending by
\* date, and at every position the rolling columns are the means of the
\* column over the window that ends there
TrendIsRight ==
    /\ result.ret.kind = "frame"
    /\ Len(TrendRows) = Len(df)
    /\ {TrendRows[i] : i \in DOMAIN TrendRows} = {df[i] : i \in DOMAIN df}
    /\ \A i \in 1 .. Len(TrendRows) - 1 :
          TrendRows[i].date <= TrendRows[i + 1].date
    /\ \A i \in DOMAIN TrendRows :
          /\ IsQuotient(result.ret.rows[i].rolling_goals,
                        TotalOf(TrendRows, "goals", WindowAt(i)),
                        Cardinality(WindowAt(i)))
          /\ IsQuotient(result.ret.rows[i].rolling_assists,
                        TotalOf(TrendRows, "assists", WindowAt(i)),
                        Cardinality(WindowAt(i)))
          /\ IsQuotient(result.ret.rows[i].rolling_saves,
                        TotalOf(TrendRows, "saves", WindowAt(i)),
                        Cardinality(WindowAt(i)))

\* C18: every call of get_performance_trend returns the rows of the
\* dataset sorted ascending by date, the rolling columns of the row at
\* position i being the means over the rows max(0, i-4)..i (window 5, at
\* least 1 sample), and leaves the dataset as it was.
C18_TrendSortedRollingPure ==
    [][result'.op = "get_performance_trend"
       => (TrendIsRight' /\ df' = df /\ match_history' = match_history)]_vars

\* C18 witness: the trend of six games of which only the oldest had
\* goals: the window of the last row has left that game behind.
C18_Witness ==
    /\ result.op = "get_performance_trend"
    /\ Len(df) = 6
    /\ TrendRows[1].goals = 2
    /\ result.ret.rows[5].rolling_goals = Ratio(2, 5)
    /\ result.ret.rows[6].rolling_goals = Ratio(0, 5)

----------------------------------------------------------------------------
(* Properties of the search, checked under SpecSearch *)

\* C19: search_replays asks for min(count, 200) replays, so never for more
\* than 200 nor for more than count, sorted by replay date descending, and
\* when the request fails (in transport or with an HTTP error status) it
\* returns the empty list.
C19_SearchCappedNewestFirstNoRaise ==
    call.op = "search_replays" =>
        /\ call.params["count"] = (IF call.count < 200 THEN call.count ELSE 200)
        /\ call.params["count"] <= 200
        /\ call.params["count"] <= call.count
        /\ call.params["sort-by"] = "replay-date"
        /\ call.params["sort-dir"] = "desc"
        /\ call.params["player-name"] = call.player_name
        /\ (~api.search.ok => call.ret = <<>>)

\* C19 witness: 201 replays asked for, 200 requested, and the service
\* answers with an HTTP error status.
C19_Witness ==
    /\ call.op = "search_replays"
    /\ call.count = 201
    /\ call.params["count"] = 200
    /\ api.search = HttpError
    /\ call.ret = <<>>

\* C19 witness: the request fails in transport.
C19_WitnessTransport ==
    /\ call.op = "search_replays"
    /\ call.count = 30
    /\ call.params["count"] = 30
    /\ api.search = Failed
    /\ call.ret = <<>>

----------------------------------------------------------------------------
(* Properties of the extraction, checked under SpecExtract *)

\* Two characters that are the same letter in either case
SameLetter(a, b) ==
    \/ a = b
    \/ <<a, b>> \in {<<"A", "a">>, <<"B", "b">>, <<"F", "f">>, <<"O", "o">>,
                      <<"R", "r">>, <<"a", "A">>, <<"b", "B">>, <<"f", "F">>,
                      <<"o", "O">>, <<"r", "R">>}

\* Two names that are equal but for the case of their letters
EqualIgnoringCase(s, t) ==
    /\ Len(s) = Len(t)
    /\ \A i \in 1 .. Len(s) : SameLetter(s[i], t[i])

\* The players of the team of replay_data, if it has the team and a roster
NamedOn(replay_data, team_color) ==
    IF team_color \in DOMAIN replay_data
       /\ "players" \in DOMAIN replay_data[team_color]
    THEN {replay_data[team_color].players[i] :
             i \in DOMAIN replay_data[team_color].players}
    ELSE {}

\* The team of replay_data has a player whose name is name but for case
OnRoster(replay_data, team_color, name) ==
    \E player \in NamedOn(replay_data, team_color) :
        /\ "name" \in DOMAIN player
        /\ EqualIgnoringCase(player.name, name)

\* C13: get_player_stats_from_replay returns a record exactly when a roster
\* entry of one of the two teams has the name looked up but for the case
\* of its letters, and the record is that of a player with that name; a
\* roster entry "Foo" is matched by "foo" and "FOO" and not by "Foobar";
\* without a matching entry the result is None.
C13_CaseInsensitiveExactName ==
    call.op = "get_player_stats_from_replay" =>
        /\ (call.ret # None) <=>
               (\/ OnRoster(call.replay_data, "blue", call.player_name)
                \/ OnRoster(call.replay_data, "orange", call.player_name))
        /\ call.ret # None =>
               /\ EqualIgnoringCase(call.ret.player_name, call.player_name)
               /\ OnRoster(call.replay_data, call.ret.team, call.player_name)
        /\ (/\ call.player_name = <<"F", "o", "o", "b", "a", "r">>
            /\ call.ret # None)
           => call.ret.player_name # <<"F", "o", "o">>

\* C13 witness: the lookup name "FOO" was matched to the roster entry "Foo"
\* of a replay whose other team has a player "Foobar".
C13_Witness ==
    /\ call.op = "get_player_stats_from_replay"
    /\ call.player_name = <<"F", "O", "O">>
    /\ call.ret # None
    /\ call.ret.player_name = <<"F", "o", "o">>
    /\ \E player \in NamedOn(call.replay_data, "blue") :
          /\ "name" \in DOMAIN player
          /\ player.name = <<"F", "o", "o", "b", "a", "r">>

\* The goal total of a team of replay_data, 0 if the payload has none
GoalTotal(replay_data, team_color) ==
    IF /\ team_color \in DOMAIN replay_data
       /\ "stats" \in DOMAIN replay_data[team_color]
       /\ "core" \in DOMAIN replay_data[team_color].stats
       /\ "goals" \in DOMAIN replay_data[team_color].stats.core
    THEN replay_data[team_color].stats.core.goals
    ELSE 0

OtherTeam(team_color) == IF team_color = "blue" THEN "orange" ELSE "blue"

\* C14: the extracted record has won = TRUE exactly when the goal total of
\* the team the player was found on is strictly greater than the other
\* team's, a missing total counting as 0; with equal totals won is FALSE.
C14_WonIffStrictlyMoreGoals ==
    (call.op = "get_player_stats_from_replay" /\ call.ret # None) =>
        /\ OnRoster(call.replay_data, call.ret.team, call.player_name)
        /\ call.ret.won <=>
               GoalTotal(call.replay_data, call.ret.team)
                   > GoalTotal(call.replay_data, OtherTeam(call.ret.team))
        /\ GoalTotal(call.replay_data, "blue")
               = GoalTotal(call.replay_data, "orange") => ~call.ret.won

\* C14 witness: blue scored 3 and orange 1, and the record extracted for a
\* player of orange has won = FALSE.
C14_Witness ==
    /\ call.op = "get_player_stats_from_replay"
    /\ call.ret # None
    /\ call.ret.team = "orange"
    /\ GoalTotal(call.replay_data, "blue") = 3
    /\ GoalTotal(call.replay_data, "orange") = 1
    /\ ~call.ret.won

\* The roster entry named as the record ret
NamedAs(player, ret) ==
    "name" \in DOMAIN player /\ EqualIgnoringCase(player.name, ret.player_name)

\* The player of replay_data that the record ret was extracted from: the
\* first of the team of that name
SourceOf(replay_data, ret) ==
    LET roster == replay_data[ret.team].players
    IN  roster[CHOOSE i \in DOMAIN roster :
                   /\ NamedAs(roster[i], ret)
                   /\ \A j \in 1 .. i - 1 : ~NamedAs(roster[j], ret)]

\* The "core" dict of a player, the dict without keys if it has none
CoreOf(player) ==
    IF "stats" \in DOMAIN player /\ "core" \in DOMAIN player.stats
    THEN player.stats.core
    ELSE EmptyDict

\* The value in ret of a field that d lacks under key k is v
DefaultsTo(d, k, value, v) == k \notin DOMAIN d => value = v

\* The value in ret of a field that d has under key k is d[k]
PassesOn(d, k, value) == k \in DOMAIN d => value = d[k]

\* C15: when the player is found, get_player_stats_from_replay returns a
\* record, and every source field that is missing from the payload (the
\* metadata id, date and playlist_name as well as the stats of the
\* player) is 0 in it.
C15_EveryMissingFieldIsZero ==
    (call.op = "get_player_stats_from_replay" /\ call.ret # None) =>
        LET core == CoreOf(SourceOf(call.replay_data, call.ret))
        IN  /\ DefaultsTo(call.replay_data, "id", call.ret.replay_id, 0)
            /\ DefaultsTo(call.replay_data, "date", call.ret.date, 0)
            /\ DefaultsTo(call.replay_data, "playlist_name",
                          call.ret.playlist, 0)
            /\ DefaultsTo(core, "goals", call.ret.goals, 0)
            /\ DefaultsTo(core, "assists", call.ret.assists, 0)
            /\ DefaultsTo(core, "saves", call.ret.saves, 0)
            /\ DefaultsTo(core, "shooting_percentage",
                          call.ret.shooting_percentage, 0)

\* C15 as amended: when the player is found, get_player_stats_from_replay
\* returns a record in which every stat of the player that is missing from
\* the payload is 0, every missing metadata field (id, date,
\* playlist_name) is None, and every field the payload has is passed on.
C15_MissingStatsZeroMetadataNone ==
    (call.op = "get_player_stats_from_replay" /\ call.ret # None) =>
        LET core == CoreOf(SourceOf(call.replay_data, call.ret))
        IN  /\ DefaultsTo(call.replay_data, "id", call.ret.replay_id, NULL)
            /\ DefaultsTo(call.replay_data, "date", call.ret.date, NULL)
            /\ DefaultsTo(call.replay_data, "playlist_name",
                          call.ret.playlist, NULL)
            /\ DefaultsTo(core, "goals", call.ret.goals, 0)
            /\ DefaultsTo(core, "assists", call.ret.assists, 0)
            /\ DefaultsTo(core, "saves", call.ret.saves, 0)
            /\ DefaultsTo(core, "shooting_percentage",
                          call.ret.shooting_percentage, 0)
            /\ PassesOn(call.replay_data, "id", call.ret.replay_id)
            /\ PassesOn(call.replay_data, "date", call.ret.date)
            /\ PassesOn(call.replay_data, "playlist_name", call.ret.playlist)
            /\ PassesOn(core, "goals", call.ret.goals)
            /\ PassesOn(core, "assists", call.ret.assists)
            /\ PassesOn(core, "saves", call.ret.saves)
            /\ PassesOn(core, "shooting_percentage",
                        call.ret.shooting_percentage)

\* C15 witness: a record was extracted from a payload without id whose
\* player has goals and no shooting_percentage.
C15_Witness ==
    /\ call.op = "get_player_stats_from_replay"
    /\ call.ret # None
    /\ "id" \notin DOMAIN call.replay_data
    /\ call.ret.goals = 2
    /\ "shooting_percentage"
           \notin DOMAIN CoreOf(SourceOf(call.replay_data, call.ret))
    /\ call.ret.shooting_percentage = 0

----------------------------------------------------------------------------
(* Properties of the match history, checked under SpecHistory *)

\* The replays the search listed
Listed_Replays == Get(Get(api.search, "json", EmptyDict), "list", <<>>)

\* The search results whose detail fetch succeeded and whose rosters have
\* the name looked up
Qualifying ==
    {i \in DOMAIN Listed_Replays :
        /\ api.details[i].ok
        /\ \/ OnRoster(api.details[i].json, "blue", call.player_name)
           \/ OnRoster(api.details[i].json, "orange", call.player_name)}

\* ret holds one record for each position of Q, in the order of Q
OneRecordEach(ret, Q) ==
    /\ Len(ret) = Cardinality(Q)
    /\ \E f \in [DOMAIN ret -> Q] :
          /\ \A j, k \in DOMAIN ret : j < k => f[j] < f[k]
          /\ \A k \in DOMAIN ret :
                /\ ret[k] # None
                /\ ret[k].replay_id = Get(api.details[f[k]].json, "id", NULL)
                /\ EqualIgnoringCase(ret[k].player_name, call.player_name)
                /\ ret[k] = PlayerStatsFromReplay(api.details[f[k]].json,
                                                  call.player_name)

\* C20: get_player_match_history returns exactly one record for each search
\* result whose detail fetch succeeded and whose rosters have the name, in
\* search order; the replays whose fetch failed or whose rosters lack the
\* name are skipped and every replay listed is fetched, whatever happened
\* to the ones before it.
C20_PerReplayFailureIsolation ==
    call.op = "get_player_match_history" =>
        /\ OneRecordEach(call.ret, Qualifying)
        /\ Cardinality({k \in DOMAIN call.events :
                           call.events[k].op = "get_replay_details"})
             = Len(Listed_Replays)

\* C20 witness: of two replays listed the fetch of the first failed and
\* the second has the player; the list returned holds the second.
C20_Witness ==
    /\ call.op = "get_player_match_history"
    /\ Len(Listed_Replays) = 2
    /\ ~api.details[1].ok
    /\ Qualifying = {2}
    /\ Len(call.ret) = 1

\* C20 witness: the rosters of the first replay lack the name, the second
\* has the player.
C20_WitnessMissingName ==
    /\ call.op = "get_player_match_history"
    /\ Len(Listed_Replays) = 2
    /\ api.details[1].ok
    /\ DOMAIN api.details[1].json # {}
    /\ Qualifying = {2}
    /\ Len(call.ret) = 1

----------------------------------------------------------------------------
(* Properties of the pacing, checked under SpecHistory *)

\* The positions of the detail fetches in the calls the method made
FetchPositions ==
    {k \in DOMAIN call.events : call.events[k].op = "get_replay_details"}

\* The search result the fetch at position k of the calls was made for
ReplayFetchedAt(k) == Cardinality({j \in FetchPositions : j <= k})

\* C21: in every run of get_player_match_history a pacing delay takes place
\* between any two successive get_replay_details calls, whatever the
\* outcome of the earlier one (success, failed fetch, player missing).
C21_DelayBetweenFetches ==
    call.op = "get_player_match_history" =>
        \A j, k \in FetchPositions :
            j < k => \E s \in (j + 1) .. (k - 1) : call.events[s].op = "sleep"

\* What the loop does instead: the delay follows the fetch exactly when the
\* replay was fetched and has the player, and no other fetch.
DelayOnlyAfterRecord ==
    call.op = "get_player_match_history" =>
        \A k \in FetchPositions :
            (ReplayFetchedAt(k) \in Qualifying)
                <=> (/\ k + 1 \in DOMAIN call.events
                     /\ call.events[k + 1] = SleepEvent)

\* Two replays listed, the first of which has the player: a delay
\* separates the two fetches.
DelayOnlyAfterRecord_Witness ==
    /\ call.op = "get_player_match_history"
    /\ Len(Listed_Replays) = 2
    /\ 1 \in Qualifying
    /\ Len(call.events) >= 4
    /\ call.events[3] = SleepEvent
    /\ call.events[4].op = "get_replay_details"

----------------------------------------------------------------------------
(* The callers: src/app.py and src/main.py, one step at a time *)

\* A step that shows something to the user of the run leaves it in call: the
\* message that ends a run, and "Analysis complete" before the results are
\* displayed.  A step that shows nothing leaves NoCall.

\* Mutant of NothingFetched: the callers go on to store whatever came back
NothingFetched_Never(fetched) == FALSE

\* "if not match_history" in both callers
NothingFetched(fetched) == fetched = <<>>

\* The storage works
NoFault == [at |-> "none"]

\* The places of add_match_history where the storage may fail with an
\* sqlite3.Error that is no IntegrityError (disk full, database locked,
\* I/O error): inside add_player, at the INSERT of match_data[i], at the
\* UPDATE of the player record, at the commit
StorageFaults(match_data) ==
    {[at |-> "add_player"], [at |-> "update"], [at |-> "commit"]}
    \cup {[at |-> "insert", i |-> i] : i \in DOMAIN match_data}

\* What the storage may do inside self.add_player
AddPlayerFaults == {NoFault, [at |-> "add_player"]}

\* What the storage may do after self.add_player has returned
TransactionFaults(match_data) ==
    {NoFault} \cup (StorageFaults(match_data) \ AddPlayerFaults)

\* self.add_player as add_match_history calls it, when the storage does
\* fault: the player record is inserted and committed, or the exception
\* leaves add_player before its commit
AddPlayerOnDisk(ptab, player_name, fault) ==
    IF fault = NoFault
    THEN LET ps == AddPlayerRows(ptab, player_name)
         IN  [rows |-> ps.rows, seq |-> ps.seq, raised |-> FALSE]
    ELSE [rows |-> ptab.rows, seq |-> ptab.seq, raised |-> TRUE]

\* Mutant of InsertAndCommitOnDisk: a failure is caught, the way an
\* IntegrityError is, and the call goes on to the commit
InsertAndCommitOnDisk_Swallowing(ptab, mtab, player_id, match_data, fault) ==
    LET done == InsertAndCommit(ptab, mtab, player_id,
                                IF fault = NoFault THEN match_data ELSE <<>>)
    IN  [players         |-> done.players,
         match_history   |-> done.match_history,
         sqlite_sequence |-> done.sqlite_sequence,
         raised          |-> FALSE]

\* The transaction of add_match_history when the storage does fault.  An
\* exception leaves the method before the commit, and the INSERTs made so
\* far are never committed.
InsertAndCommitOnDisk(ptab, mtab, player_id, match_data, fault) ==
    IF fault = NoFault
    THEN LET done == InsertAndCommit(ptab, mtab, player_id, match_data)
         IN  [players         |-> done.players,
              match_history   |-> done.match_history,
              sqlite_sequence |-> done.sqlite_sequence,
              raised          |-> FALSE]
    ELSE [players         |-> ptab.rows,
          match_history   |-> mtab.rows,
          sqlite_sequence |-> [players       |-> ptab.seq,
                               match_history |-> mtab.seq],
          raised          |-> TRUE]

\* The frame of a thread that has entered a run of the caller op at pc:
\* the arguments, and the local variables with nothing in them yet
RunFrame(op, pc, player_name, num_games) ==
    [op          |-> op,
     pc          |-> pc,
     player_name |-> player_name,
     num_games   |-> num_games,
     response    |-> "",
     events      |-> <<>>,
     match_data  |-> <<>>,
     added       |-> FALSE,
     created     |-> FALSE,
     player_id   |-> NULL,
     fault       |-> NoFault,
     games       |-> 0]

\* What is known of a run when it ends in the frame f with message: the
\* requests made, whether add_match_history was called, whether its
\* add_player created the player record, what the storage did, whether
\* add_match_history raised into the except clause of the caller
RunEnd(f, raised, message) ==
    [op          |-> f.op,
     player_name |-> f.player_name,
     num_games   |-> f.num_games,
     response    |-> f.response,
     events      |-> f.events,
     added       |-> f.added,
     created     |-> f.created,
     fault       |-> f.fault,
     raised      |-> raised,
     message     |-> message]

\* The except clauses around the two callers: st.error(f"Error: ...") in
\* the dashboard, print("Error analyzing ...") in the loop of the script
ErrorMessage(op) ==
    IF op = "dashboard" THEN "Error" ELSE "Error analyzing"

\* A call that raises leaves its method before conn.close(): the connection
\* keeps its lock on the file until the collector frees it.  What is left of
\* the lock after a call has raised: held, or freed
LockLeft == {TRUE, FALSE}

\* What the next storage call finds of that lock: still held, and then
\* sqlite3 raises 'database is locked' after its busy timeout, or freed
LockFound == IF locked THEN {TRUE, FALSE} ELSE {FALSE}

\* A storage call outside add_match_history has raised in the run of the
\* frame f: the run ends in the except clause of the caller
ReadRaises(f) ==
    /\ call' = RunEnd(f, FALSE, ErrorMessage(f.op))
    /\ locked' \in LockLeft
    /\ UNCHANGED <<players, match_history, sqlite_sequence, api, df, result, analyzed_player>>

\* "Analyze Player" pressed with player_name in the text input: the run
\* up to the answer of db.player_exists
dashboard(player_name, num_games) ==
    /\ SomeThread
    /\ \E held \in LockFound :
          LET f == RunFrame("dashboard",
                            IF PlayerExists(players, player_name)
                            THEN "load" ELSE "fetch",
                            player_name, num_games)
          IN  IF held
              THEN /\ ReadRaises(f)
                   /\ threads' = threads
              ELSE /\ threads' = Enter(f)
                   /\ call' = NoCall
                   /\ locked' = FALSE
                   /\ UNCHANGED <<players, match_history, sqlite_sequence,
                                  api, df, result, analyzed_player>>

\* The dashboard fetches the match history of a player the store did not
\* have, and stops when nothing came back
dashboard_fetch(f) ==
    /\ f.op = "dashboard" /\ f.pc = "fetch"
    /\ LET h == PlayerMatchHistory(api, f.player_name, f.num_games)
           g == [f EXCEPT !.events = h.events,
                          !.match_data = h.match_history]
       IN  IF NothingFetched(h.match_history)
           THEN /\ threads' = Return(f)
                /\ call' = RunEnd(g, FALSE,
                                  "No replays found for player")
           ELSE /\ threads' = Goto(f, [g EXCEPT !.pc = "add_player"])
                /\ call' = NoCall
    /\ UNCHANGED <<players, match_history, sqlite_sequence, api, df, result,
                   locked, analyzed_player>>

\* db.add_match_history as a caller calls it, from its start to the return
\* of self.add_player; an exception goes to the caller's except clause
ingest_add_player(f) ==
    /\ f.pc = "add_player"
    /\ Room(f.match_data)
    /\ \E fault \in AddPlayerFaults :
          LET ps == AddPlayerOnDisk(PlayersTable, f.player_name, fault)
              g  == [f EXCEPT !.added = TRUE, !.fault = fault]
          IN  /\ players' = ps.rows
              /\ sqlite_sequence' =
                     [sqlite_sequence EXCEPT !.players = ps.seq]
              /\ IF ps.raised
                 THEN /\ threads' = Return(f)
                      /\ call' = RunEnd(g, TRUE, ErrorMessage(f.op))
                      /\ locked' \in LockLeft
                 ELSE /\ threads' = Goto(f,
                             [g EXCEPT
                                 !.pc = "insert",
                                 !.created =
                                     ~PlayerExists(players, f.player_name),
                                 !.player_id =
                                     ps.rows[PlayerIdOf(ps.rows,
                                         f.player_name)].player_id])
                      /\ call' = NoCall
                      /\ locked' = FALSE
    /\ UNCHANGED <<match_history, api, df, result, analyzed_player>>

\* The rest of db.add_match_history as a caller calls it: the transaction
\* of the INSERTs and the return to the caller, or an exception that goes
\* to the caller's except clause
ingest_commit(f) ==
    /\ f.pc = "insert" /\ f.op \in {"dashboard", "analyze_player"}
    /\ \E fault \in TransactionFaults(f.match_data) :
          LET done == InsertAndCommitOnDisk(PlayersTable, MatchTable,
                                            f.player_id, f.match_data, fault)
              g    == [f EXCEPT !.fault = fault]
          IN  /\ players' = done.players
              /\ match_history' = done.match_history
              /\ sqlite_sequence' = done.sqlite_sequence
              /\ IF done.raised
                 THEN /\ threads' = Return(f)
                      /\ call' = RunEnd(g, TRUE, ErrorMessage(f.op))
                      /\ locked' \in LockLeft
                 ELSE /\ threads' = Goto(f, [g EXCEPT !.pc = "load"])
                      /\ call' = NoCall
                      /\ locked' = FALSE
    /\ UNCHANGED <<api, df, result, analyzed_player>>

\* The dashboard reads the player's dataset.  Without rows it stops; with
\* rows it keeps the name in the session, shows the analysis as complete and
\* goes on, after the try, to the block that displays the results
dashboard_load(f) ==
    /\ f.op = "dashboard" /\ f.pc = "load"
    /\ \E held \in LockFound :
          IF held
          THEN /\ ReadRaises(f)
               /\ threads' = Return(f)
          ELSE /\ \E stats_df \in ResultSets(QueryRows(players, match_history,
                                                       f.player_name)) :
                     IF Len(stats_df) = 0
                     THEN /\ call' = RunEnd(f, FALSE, "No data found")
                          /\ threads' = Return(f)
                          /\ UNCHANGED <<df, analyzed_player>>
                     ELSE /\ call' = RunEnd(f, FALSE, "Analysis complete")
                          /\ threads' = Goto(f, [f EXCEPT !.pc = "reload"])
                          /\ df' = stats_df
                          /\ analyzed_player' =
                                 analyzed_player \cup {f.player_name}
               /\ locked' = FALSE
               /\ UNCHANGED <<players, match_history, sqlite_sequence, api,
                              result>>

\* "Display results if we have an analyzed player": the block after the
\* try opens the database and reads the dataset of the session's player
\* again.  No handler is around it: an exception of the storage ends the
\* script run with the traceback on the page.
ReloadData(f) ==
    \E held \in LockFound :
        IF held
        THEN /\ call' = RunEnd(f, FALSE, "OperationalError")
             /\ locked' \in LockLeft
             /\ df' = df
        ELSE /\ \E stats_df \in ResultSets(QueryRows(players, match_history,
                                                     f.player_name)) :
                   df' = stats_df
             /\ call' = RunEnd(f, FALSE, "Performance Overview")
             /\ locked' = FALSE

\* The run of the button goes through that block
dashboard_reload(f) ==
    /\ f.op = "dashboard" /\ f.pc = "reload"
    /\ ReloadData(f)
    /\ threads' = Return(f)
    /\ UNCHANGED <<players, match_history, sqlite_sequence, api, result,
                   analyzed_player>>

\* A session that holds an analyzed player runs the script again without
\* the button (a widget was touched): only that block reads the database
dashboard_rerun(player_name, num_games) ==
    /\ SomeThread
    /\ player_name \in analyzed_player
    /\ ReloadData(RunFrame("dashboard_rerun", "reload", player_name,
                           num_games))
    /\ UNCHANGED <<players, match_history, sqlite_sequence, api, result,
                   threads, analyzed_player>>

\* The summary block over a dataset of games rows.  Without rows
\* stats_df['won'].sum() / len(stats_df) is the int 0 over 0: the
\* ZeroDivisionError goes to the except clause of the loop.
SummaryMessage(games) ==
    IF games = 0 THEN "Error analyzing" ELSE "SUMMARY"

\* analyze_player as the loop of the script calls it, one player after the
\* other: the run up to the answer of db.player_exists
analyze_player(player_name, num_games) ==
    /\ SomeThread
    /\ \A f \in Frames : f.op # "analyze_player"
    /\ \E held \in LockFound :
          LET f == RunFrame("analyze_player",
                            IF PlayerExists(players, player_name)
                            THEN "stats" ELSE "fetch",
                            player_name, num_games)
          IN  IF held
              THEN /\ ReadRaises(f)
                   /\ threads' = threads
              ELSE /\ threads' = Enter(f)
                   /\ call' = NoCall
                   /\ locked' = FALSE
                   /\ UNCHANGED <<players, match_history, sqlite_sequence,
                                  api, df, result, analyzed_player>>

\* The store has the player: the script reads the dataset and prints how
\* many games are stored, before it asks
analyze_stats(f) ==
    /\ f.op = "analyze_player" /\ f.pc = "stats"
    /\ \E held \in LockFound :
          IF held
          THEN /\ ReadRaises(f)
               /\ threads' = Return(f)
          ELSE /\ \E stats_df \in ResultSets(QueryRows(players, match_history,
                                                       f.player_name)) :
                     threads' = Goto(f, [f EXCEPT
                                            !.pc = "prompt",
                                            !.games = Len(stats_df)])
               /\ call' = NoCall
               /\ locked' = FALSE
               /\ UNCHANGED <<players, match_history, sqlite_sequence, api,
                              df, result, analyzed_player>>

\* The answer to "Fetch new data anyway?": unless it is y the script prints
\* the summary of the dataset it has read before it asked
analyze_prompt(f) ==
    /\ f.op = "analyze_player" /\ f.pc = "prompt"
    /\ \E response \in {"y", "n"} :
          LET g == [f EXCEPT !.response = response]
          IN  IF response = "y"
              THEN /\ threads' = Goto(f, [g EXCEPT !.pc = "fetch"])
                   /\ call' = NoCall
              ELSE /\ threads' = Return(f)
                   /\ call' = RunEnd(g, FALSE, SummaryMessage(f.games))
    /\ UNCHANGED <<players, match_history, sqlite_sequence, api, df, result,
                   locked, analyzed_player>>

\* The script fetches the match history, and returns when nothing came back
analyze_fetch(f) ==
    /\ f.op = "analyze_player" /\ f.pc = "fetch"
    /\ LET h == PlayerMatchHistory(api, f.player_name, f.num_games)
           g == [f EXCEPT !.events = h.events,
                          !.match_data = h.match_history]
       IN  IF NothingFetched(h.match_history)
           THEN /\ threads' = Return(f)
                /\ call' = RunEnd(g, FALSE, "Could not fetch data")
           ELSE /\ threads' = Goto(f, [g EXCEPT !.pc = "add_player"])
                /\ call' = NoCall
    /\ UNCHANGED <<players, match_history, sqlite_sequence, api, df, result,
                   locked, analyzed_player>>

\* The script reads the player's dataset back and prints the summary
analyze_summary(f) ==
    /\ f.op = "analyze_player" /\ f.pc = "load"
    /\ threads' = Return(f)
    /\ \E held \in LockFound :
          IF held THEN ReadRaises(f)
          ELSE /\ \E stats_df \in ResultSets(QueryRows(players, match_history,
                                                       f.player_name)) :
                     call' = RunEnd(f, FALSE, SummaryMessage(Len(stats_df)))
               /\ locked' = FALSE
               /\ UNCHANGED <<players, match_history, sqlite_sequence, api,
                              df, result, analyzed_player>>

\* The services of the caller specifications: the search fails or lists
\* the replay 1 at most, and its detail cannot be fetched or is a game
CallerServices ==
    {a \in HistoryServices :
        /\ Len(a.details) <= 1
        /\ a.search.ok =>
              \A i \in DOMAIN Get(a.search.json, "list", <<>>) :
                  a.search.json.list[i] = [id |-> 1]
        /\ \A i \in DOMAIN a.details :
              /\ a.details[i] # HttpError
              /\ a.details[i].ok =>
                    /\ DOMAIN a.details[i].json # {}
                    /\ a.details[i].json.id = 1}

\* The names typed into the callers: both are on the roster of a game
CallerNames == {<<"f", "o", "o">>, <<"F", "o", "o", "b", "a", "r">>}

InitDashboard ==
    /\ players = <<>>
    /\ match_history = <<>>
    /\ sqlite_sequence = [players |-> 0, match_history |-> 0]
    /\ call = NoCall
    /\ api \in CallerServices
    /\ df = <<>>
    /\ result = NoResult
    /\ threads = NoThreads
    /\ locked = FALSE
    /\ analyzed_player = {}

\* db.add_match_history inside a run of a caller
Ingest ==
    \/ \E f \in Frames : ingest_add_player(f)
    \/ \E f \in Frames : ingest_commit(f)

NextDashboard ==
    \/ \E n \in CallerNames : dashboard(n, SliderDefault)
    \/ \E f \in Frames : dashboard_fetch(f)
    \/ \E f \in Frames : dashboard_load(f)
    \/ \E f \in Frames : dashboard_reload(f)
    \/ \E n \in CallerNames : dashboard_rerun(n, SliderDefault)
    \/ Ingest

SpecDashboard == InitDashboard /\ [][NextDashboard]_vars

InitMain ==
    /\ players = <<>>
    /\ match_history = <<>>
    /\ sqlite_sequence = [players |-> 0, match_history |-> 0]
    /\ call = NoCall
    /\ api \in CallerServices
    /\ df = <<>>
    /\ result = NoResult
    /\ threads = NoThreads
    /\ locked = FALSE
    /\ analyzed_player = {}

NextMain ==
    \/ \E n \in CallerNames : analyze_player(n, MainGames)
    \/ \E f \in Frames : analyze_stats(f)
    \/ \E f \in Frames : analyze_prompt(f)
    \/ \E f \in Frames : analyze_fetch(f)
    \/ \E f \in Frames : analyze_summary(f)
    \/ Ingest

SpecMain == InitMain /\ [][NextMain]_vars

\* Both callers on one store
SpecCallers == InitMain /\ [][NextDashboard \/ NextMain]_vars

----------------------------------------------------------------------------
(* Properties of the callers, checked under SpecCallers *)

\* A run of a caller that asked the service for the player's replays
FetchingRun(c) ==
    /\ c.op \in {"dashboard", "analyze_player"}
    /\ c.events # <<>>

\* What the caller tells the user when nothing came back
NothingFoundMessage(c) ==
    IF c.op = "dashboard" THEN c.message = "No replays found for player"
    ELSE c.message = "Could not fetch data"

\* C22: when the search fails or lists nothing, a run of the dashboard or
\* of the main script that fetches makes the search request and no detail
\* fetch, reports that nothing was found, does not call add_match_history
\* and leaves both tables as they were: no player row for the name is
\* created.
C22_EmptySearchLeavesStore ==
    [][(FetchingRun(call') /\ Listed_Replays = <<>>)
       => /\ Len(call'.events) = 1
          /\ call'.events[1].op = "search_replays"
          /\ ~call'.added
          /\ NothingFoundMessage(call')
          /\ players' = players
          /\ match_history' = match_history
          /\ sqlite_sequence' = sqlite_sequence
          /\ PlayerExists(players', call'.player_name)
                = PlayerExists(players, call'.player_name)]_vars

\* C22 witness: the dashboard was run for a player the store does not
\* have while the search request fails; the store has no player.
C22_Witness ==
    /\ call.op = "dashboard"
    /\ ~api.search.ok
    /\ Len(call.events) = 1
    /\ call.message = "No replays found for player"
    /\ ~PlayerExists(players, call.player_name)

\* C22 witness: the main script was run for a new player while the search
\* lists no replay.
C22_WitnessMain ==
    /\ call.op = "analyze_player"
    /\ api.search.ok
    /\ Listed_Replays = <<>>
    /\ Len(call.events) = 1
    /\ call.message = "Could not fetch data"
    /\ ~PlayerExists(players, call.player_name)

----------------------------------------------------------------------------
(* Batches that mix stored and new replays: SpecBatch *)

\* The match dictionary of the replay r
MixedRecord(r) ==
    [replay_id |-> r, date |-> 1, playlist |-> NULL, won |-> TRUE,
     goals |-> 0, assists |-> 0, saves |-> 0, shooting_percentage |-> 0]

MixedBatches == SeqsUpTo({MixedRecord(r) : r \in 1 .. MaxMixed}, MaxMixed)

\* The store after a first add_match_history("Squishy", b)
InitStored(b) ==
    LET done == AddMatchHistory([rows |-> <<>>, seq |-> 0],
                                [rows |-> <<>>, seq |-> 0], "Squishy", b)
    IN  /\ players = done.players
        /\ match_history = done.match_history
        /\ sqlite_sequence = done.sqlite_sequence
        /\ call = NoCall
        /\ api = Offline
        /\ df = <<>>
        /\ result = NoResult
        /\ threads = NoThreads
        /\ locked = FALSE
        /\ analyzed_player = {}

InitBatch == \E b \in MixedBatches : Len(b) <= MaxBatch /\ InitStored(b)

\* The next add_match_history on a store that holds a first batch
add_match_history_again(player_name, match_data) ==
    /\ call = NoCall
    /\ threads = NoThreads
    /\ add_match_history(player_name, match_data)

NextBatch ==
    \/ \E n \in Names, b \in MixedBatches : add_match_history_again(n, b)
    \/ \E f \in Frames : add_match_history_commit(f)

SpecBatch == InitBatch /\ [][NextBatch]_vars

----------------------------------------------------------------------------
(* Properties of the batches, checked under SpecBatch *)

\* The replay ids of the rows
StoredReplays(rows) == {rows[i].replay_id : i \in DOMAIN rows}

\* The replay ids of the batch
BatchReplays(match_data) ==
    {match_data[i].replay_id : i \in DOMAIN match_data}

\* C23: add_match_history on a batch that mixes replay ids that are stored
\* with ids that are not, in any order, completes without an error, keeps
\* the rows there were, and stores one row, of this player, for every new
\* replay id of the batch, whether it stands before or after a duplicate.
C23_DuplicateDoesNotAbortBatch ==
    [][\A f \in Frames :
        Returning(f)
        => LET new == BatchReplays(call'.match_data)
                        \ StoredReplays(match_history)
          IN  /\ call'.match_data = f.match_data
              /\ SubSeq(match_history', 1, Len(match_history)) = match_history
              /\ Len(match_history') = Len(match_history) + Cardinality(new)
              /\ \A r \in new :
                    \E i \in DOMAIN match_history' :
                        /\ i > Len(match_history)
                        /\ match_history'[i].replay_id = r
                        /\ \E k \in DOMAIN players' :
                              /\ players'[k].player_name = call'.player_name
                              /\ players'[k].player_id
                                    = match_history'[i].player_id]_vars

\* C23 witness: a batch of a new replay, a stored one and another new one
\* was added; the two new replays are stored.
C23_Witness ==
    /\ call.op = "add_match_history"
    /\ Len(call.match_data) = 3
    /\ Len(match_history) = 3
    /\ call.match_data[1].replay_id = match_history[2].replay_id
    /\ call.match_data[2].replay_id = match_history[1].replay_id
    /\ call.match_data[3].replay_id = match_history[3].replay_id
    /\ threads = NoThreads

----------------------------------------------------------------------------
(* Properties of the main script, checked under SpecCallers and SpecMain *)

\* C24: when the storage fails inside add_match_history with an error that
\* is no duplicate key, the error leaves add_match_history, and the main
\* script ends the ingestion of that player with its error message and
\* without a summary.
C24_StorageFailurePropagates ==
    (/\ call.op = "analyze_player"
     /\ call.added
     /\ call.fault # NoFault)
        => /\ call.raised
           /\ call.message = "Error analyzing"

\* C24 witness: the INSERT of the one record fetched for a new player
\* failed; the script reported the error.
C24_Witness ==
    /\ call.op = "analyze_player"
    /\ call.added
    /\ call.fault = [at |-> "insert", i |-> 1]
    /\ call.raised
    /\ call.message = "Error analyzing"

\* The step in which add_match_history, called in the frame f, raises
AddMatchHistoryRaises(f) ==
    /\ f.pc \in {"add_player", "insert"}
    /\ threads' = Return(f)
    /\ call'.op = f.op
    /\ call'.raised

\* C28: add_match_history is all or nothing: when the storage fails inside
\* it with an error that is no duplicate key, the store is left as it was
\* before the call, with no match record of the batch and no new player row.
C28_FailureLeavesStoreAsBefore ==
    [][\A f \in Frames :
        AddMatchHistoryRaises(f)
        => /\ match_history' = match_history
           /\ ~call'.created]_vars

\* What the code keeps of C28: a call that fails stores no match record of
\* its batch.  The player row add_player has committed on its own connection
\* stays.
FailureStoresNoMatchRecord ==
    [][\A f \in Frames :
        AddMatchHistoryRaises(f) => match_history' = match_history]_vars

\* The INSERT of the one record fetched for a new player failed: the store
\* has the player, with no game.
FailureStoresNoMatchRecord_Witness ==
    /\ call.op = "analyze_player"
    /\ call.added
    /\ call.raised
    /\ call.created
    /\ call.fault = [at |-> "insert", i |-> 1]
    /\ PlayerExists(players, call.player_name)
    /\ QueryRows(players, match_history, call.player_name) = {}
    /\ match_history = <<>>

----------------------------------------------------------------------------
(* Properties of the dashboard, checked under SpecDashboard *)

\* C25: in every state the dashboard flow reaches, a player the store has
\* (player_exists) has at least one match record (get_player_stats is not
\* empty), also when another player has stored the same replays before.
\* Stated for the states in which no run is under way: while a run is
\* between the commit of add_player and the commit of its records, the
\* player it has created has no record yet.
C25_ExistingPlayerHasGames ==
    threads = NoThreads =>
        \A n \in CallerNames :
            PlayerExists(players, n)
                => QueryRows(players, match_history, n) # {}

----------------------------------------------------------------------------
(* get_player_match_history, one request at a time: SpecHistorySteps *)

\* A request the service accepts and never answers.  search_replays and
\* get_replay_details call requests.get without timeout, so the call does
\* not return and raises nothing.
NoAnswer == [ok |-> FALSE, answered |-> FALSE]

\* The method has been entered and has sent the search request; call holds
\* its local variables: the replays listed (none before the search has
\* come back, i = 0), the position i of the loop, whether the request of
\* pass i has been sent and has not come back (waiting), the list and the
\* requests made so far.
history_search(player_name, num_games) ==
    /\ call = NoCall
    /\ call' = [op |-> "match_history_loop",
                player_name |-> player_name, num_games |-> num_games,
                replays |-> <<>>, i |-> 0, waiting |-> FALSE,
                done |-> FALSE,
                acc |-> [match_history |-> <<>>,
                         events |-> <<[op |-> "search_replays",
                                       params |-> SearchParams(player_name,
                                                               num_games)]>>]]
    /\ UNCHANGED <<players, match_history, sqlite_sequence, api, df, result, threads, locked, analyzed_player>>

\* The search request has come back: replays = self.search_replays(...)
history_listed ==
    /\ call.op = "match_history_loop"
    /\ ~call.done
    /\ call.i = 0
    /\ api.search # NoAnswer
    /\ call' = [call EXCEPT
                   !.replays = SearchReplays(api, call.player_name,
                                             call.num_games).ret,
                   !.i = 1]
    /\ UNCHANGED <<players, match_history, sqlite_sequence, api, df, result, threads, locked, analyzed_player>>

\* The head of pass i: self.get_replay_details(replay_id) sends the
\* request
history_request ==
    /\ call.op = "match_history_loop"
    /\ ~call.done
    /\ ~call.waiting
    /\ call.i >= 1
    /\ call.i <= Len(call.replays)
    /\ call' = [call EXCEPT
                   !.acc = RequestDetails(call.replays, call.i, call.acc),
                   !.waiting = TRUE]
    /\ UNCHANGED <<players, match_history, sqlite_sequence, api, df, result, threads, locked, analyzed_player>>

\* The rest of pass i, once the request for the detail has come back
history_fetch ==
    /\ call.op = "match_history_loop"
    /\ ~call.done
    /\ call.waiting
    /\ api.details[call.i] # NoAnswer
    /\ call' = [call EXCEPT
                   !.acc = ProcessReplay(api, call.player_name, call.i,
                                         call.acc),
                   !.i = call.i + 1,
                   !.waiting = FALSE]
    /\ UNCHANGED <<players, match_history, sqlite_sequence, api, df, result, threads, locked, analyzed_player>>

\* return [] when nothing is listed, return match_history after the loop
history_return ==
    /\ call.op = "match_history_loop"
    /\ ~call.done
    /\ call.i >= 1
    /\ call.i > Len(call.replays)
    /\ call' = [call EXCEPT !.done = TRUE]
    /\ UNCHANGED <<players, match_history, sqlite_sequence, api, df, result, threads, locked, analyzed_player>>

NextHistorySteps ==
    \/ \E n \in HistoryNames : history_search(n, DefaultCount)
    \/ history_listed
    \/ history_request
    \/ history_fetch
    \/ history_return

\* The services of SpecHistorySteps.  Those that answer every request:
\* the search fails or lists replays, with or without id, and the detail
\* of each cannot be fetched or is the game of both players.  Those that
\* never answer the search, and those that never answer the request for
\* the detail of one of the replays listed.
StepServices ==
    LET answering ==
            {a \in HistoryServices :
                \A i \in DOMAIN a.details :
                    /\ a.details[i] # HttpError
                    /\ a.details[i].ok =>
                          /\ "orange" \in DOMAIN a.details[i].json
                          /\ a.details[i].json.id = 1}
    IN  answering
        \cup {[search |-> NoAnswer, details |-> <<>>]}
        \cup UNION {{[a EXCEPT !.details[i] = NoAnswer]
                        : i \in DOMAIN a.details} : a \in answering}

InitHistorySteps ==
    /\ players = <<>>
    /\ match_history = <<>>
    /\ sqlite_sequence = [players |-> 0, match_history |-> 0]
    /\ call = NoCall
    /\ api \in StepServices
    /\ df = <<>>
    /\ result = NoResult
    /\ threads = NoThreads
    /\ locked = FALSE
    /\ analyzed_player = {}

\* The interpreter goes on with the statement that follows as soon as the
\* request it waits for has come back, with an answer or with an
\* exception.  Nothing makes a request come back: a thread whose request
\* is never answered stays where it is.
SpecHistorySteps ==
    /\ InitHistorySteps
    /\ [][NextHistorySteps]_vars
    /\ WF_vars(history_listed \/ history_request \/ history_fetch
                   \/ history_return)

----------------------------------------------------------------------------
(* Properties of the loop, checked under SpecHistorySteps *)

\* The detail fetches among the requests made, in the order made
FetchesOf(events) ==
    SelectSeq(events, LAMBDA e : e.op = "get_replay_details")

\* The method is running; the method has returned
Running == call.op = "match_history_loop" /\ ~call.done

Returned == call.op = "match_history_loop" /\ call.done

\* The service answers the search and the request for every detail
EveryRequestAnswered ==
    /\ api.search # NoAnswer
    /\ \A i \in DOMAIN api.details : api.details[i] # NoAnswer

\* The run has sent a request that is never answered and waits for it
Blocked ==
    /\ Running
    /\ \/ call.i = 0 /\ api.search = NoAnswer
       \/ call.waiting /\ api.details[call.i] = NoAnswer

\* What a run that has returned has done
ReturnedRunIsRight ==
    Returned =>
        LET fetches == FetchesOf(call.acc.events)
        IN  /\ Len(fetches) = Len(call.replays)
            /\ \A k \in DOMAIN fetches :
                  fetches[k].replay_id = Get(call.replays[k], "id", NULL)
            /\ Len(call.acc.match_history) <= Len(call.replays)
            /\ call.acc = PlayerMatchHistory(api, call.player_name,
                                             call.num_games)

\* C26: every run of get_player_match_history returns, and by then it has
\* made exactly one get_replay_details call for each replay of the search
\* result, in search order, none of them twice, and the list it returns is
\* not longer than the search result.
\* Violated: a run whose search request, or whose request for a detail, is
\* never answered does not return.
C26_TerminatesOneFetchPerReplay ==
    /\ [](ReturnedRunIsRight)
    /\ Running ~> Returned

\* What holds of the loop: a run that returns has made one fetch for each
\* replay listed, in order, and returns no more games than were listed;
\* and a run against a service that answers every request returns.
ReturnsWhenAnswered ==
    /\ [](ReturnedRunIsRight)
    /\ (Running /\ EveryRequestAnswered) ~> Returned

\* A blocked run stays blocked: it makes no further request and does not
\* return.
BlockedForEver ==
    [][Blocked => UNCHANGED call]_vars

\* A run over a replay without id and a replay with id, both of whose
\* fetches failed, has returned: two fetches, in that order, and an empty
\* list.
ReturnsWhenAnswered_Witness ==
    /\ Returned
    /\ call.replays = <<EmptyDict, [id |-> 1]>>
    /\ ~api.details[1].ok
    /\ ~api.details[2].ok
    /\ FetchesOf(call.acc.events) = <<FetchEvent(NULL), FetchEvent(1)>>
    /\ call.acc.match_history = <<>>

\* A run has fetched the first detail, has sent the request for the
\* second and waits for it; it is never answered.
Blocked_Witness ==
    /\ Blocked
    /\ call.i = 2
    /\ Len(FetchesOf(call.acc.events)) = 2

====
